---------------------------- MODULE Spec2Model ----------------------------
(***************************************************************************)
(* A model of the oddsmate-backend scrapers: the MMA Decisions judge       *)
(* scorecard pipeline (sync and async), the ESPN fight-center extractors   *)
(* and the odds value normaliser.                                          *)
(*                                                                         *)
(* Pages are modelled by the elements the selectors of the code look for:  *)
(* a page is a record of the anchors found on it, and a fetch has one of   *)
(* three outcomes (FetchKinds).  Python's None is the record None, a       *)
(* raised exception the record Raised.                                     *)
(***************************************************************************)
EXTENDS Integers, Sequences, FiniteSets, TLC

VARIABLES
    site,          \* judges: the pages of mmadecisions.com / ufcstats.com
    hashOrder,     \* judges: iteration order of list(set(fight_links))
    limit,         \* judges: AsyncJudgeScraper.concurrency_limit
    semaphore,     \* judges: free slots of AsyncJudgeScraper.semaphore
    pc,            \* judges: position of every asyncio task
    ret,           \* judges: value returned by every finished task
    yearIdx,       \* judges: loop variable of parse_all_events (async)
    tasks,         \* judges: the list `tasks` of parse_all_events (async)
    openContexts,  \* judges: browser contexts opened and not closed
    asyncOut,      \* judges: value returned by the async parse_all_events
    syncOut,       \* judges: outcome of the sync parse_all_events
    content,          \* espn: the page content handed to the extractor
    self_fight_info,  \* espn: LiveESPNScraper.fight_info
    before,           \* espn: LiveESPNScraper.fight_info before the last poll
    returned,         \* espn: what the last get_live_fight_info returned
    polls,            \* espn: iterations of the loop of monitor_fight so far
    self_fights,      \* espn: ESPNHistoricalScrapper.fights after the extraction
    odds_arg,         \* odds: the argument of american_to_decimal
    dec_odds,         \* odds: what american_to_decimal returned
    api_key,          \* api: whether ODDS_API_KEY is set in the environment
    entry,            \* api: the odds-API program that was started
    api_pc,           \* api: "start", "running", "failed" (raised) or "done"
    requests_sent,    \* api: requests sent to the odds API
    out_file,         \* api: the records of the output file
    inputs,           \* api: the input events not yet processed
    last_response,    \* api: what the last fetch returned
    clock,            \* api: time.gmtime(), in poll intervals
    crawl_site,       \* crawl: the ESPN year listings and fight pages
    crawl_pc,         \* crawl: position of get_historical_fight_info
    crawl_year,       \* crawl: loop variable of get_fight_urls
    fight_urls,       \* crawl: ESPNHistoricalScrapper.fight_urls
    crawl_idx,        \* crawl: position of the loop over fight_urls
    visited,          \* crawl: the pages page.goto was called on, in order
    crawl_fights,     \* crawl: ESPNHistoricalScrapper.fights
    pre_listing,      \* pre: the completed-events page of ufcstats.com
    pre_pc,           \* pre: position of pre_2020_closing.main
    pre_todo,         \* pre: events_sorted, the part not yet processed
    final_events,     \* pre: final_events of main
    pre_odds_file,    \* pre: the content of pre_odds.json
    exceptions_file,  \* pre: the lines of exceptions.txt
    score_page,       \* rounds: the fight page given to parse_fight
    parsed_fight,     \* rounds: what parse_fight returned
    stat_value,       \* stat: the text given to process_stat_value
    stat_result,      \* stat: what process_stat_value returned
    date_str,         \* date: the date text given to the conversion
    date_result,      \* date: the conversion applied and what it returned
    link_site,        \* links: the event page with its fight links, and the fight pages
    link_order,       \* links: iteration order of the set of fight links
    link_run,         \* links: the scraper that ran, the fight URLs it fetched and its record
    completed,        \* latest: the completed-events page given to get_latest
    cutoff,           \* latest: the day of datetime.today()
    scraped,          \* latest: the event URLs passed to scrape_event_main, or Raised
    ufcstats_page,    \* offline: the completed-events listing of UFCStats
    judges_json_file, \* offline: the judges events of the input file
    offline_pc,       \* offline: "fetch", "match", "save", "done" or "raised"
    ufcstats_events,  \* offline: the UFCStats events still to be matched
    judges_events,    \* offline: the judges events in memory
    match_log,        \* offline: the matches printed, as [event_id, judges index]
    output_file,      \* offline: the judges events written, or NotRun
    max_clicks,       \* buttons: the argument of load_all_fight_buttons
    clicks_done,      \* buttons: clicks made so far
    new_clicks,       \* buttons: clicks made in the current pass of the while loop
    buttons,          \* buttons: len(buttons) of the current pass
    to_click,         \* buttons: the buttons of buttons[1:] the for loop has not reached
    buttons_pc        \* buttons: "while", "for", "scroll", "done" or "raised"

judgeVars == <<site, hashOrder, limit, semaphore, pc, ret, yearIdx, tasks,
               openContexts, asyncOut, syncOut>>

espnVars == <<content, self_fight_info, before, returned, polls, self_fights>>

oddsVars == <<odds_arg, dec_odds>>

apiVars == <<api_key, entry, api_pc, requests_sent, out_file, inputs, last_response, clock>>

crawlVars == <<crawl_site, crawl_pc, crawl_year, fight_urls, crawl_idx, visited, crawl_fights>>

preVars == <<pre_listing, pre_pc, pre_todo, final_events, pre_odds_file, exceptions_file>>

roundsVars == <<score_page, parsed_fight>>

statVars == <<stat_value, stat_result>>

dateVars == <<date_str, date_result>>

linksVars == <<link_site, link_order, link_run>>

latestVars == <<completed, cutoff, scraped>>

offlineVars == <<ufcstats_page, judges_json_file, offline_pc, ufcstats_events, judges_events, match_log, output_file>>

buttonsVars == <<max_clicks, clicks_done, new_clicks, buttons, to_click, buttons_pc>>

nonJudgeVars == <<espnVars, oddsVars, apiVars, crawlVars, preVars, roundsVars, statVars, dateVars, linksVars, latestVars, offlineVars, buttonsVars>>

vars == <<judgeVars, nonJudgeVars>>

-----------------------------------------------------------------------------
(* Python values *)

None == [none |-> TRUE]
Raised == [raised |-> TRUE]
NotRun == [notrun |-> TRUE]
\* a returned Python list (a record, so that it compares with Raised)
List(seq) == [list |-> seq]

\* no ESPN scraper has been constructed
EspnIdle ==
    /\ content = None
    /\ self_fight_info = None
    /\ before = None
    /\ returned = None
    /\ polls = 0
    /\ self_fights = None

\* american_to_decimal is not called
OddsIdle ==
    /\ odds_arg = None
    /\ dec_odds = None

\* no odds-API program has been started
ApiIdle ==
    /\ api_key = None
    /\ entry = None
    /\ api_pc = None
    /\ requests_sent = 0
    /\ out_file = None
    /\ inputs = None
    /\ last_response = None
    /\ clock = 0

\* get_historical_fight_info is not running
CrawlIdle ==
    /\ crawl_site = None
    /\ crawl_pc = None
    /\ crawl_year = 0
    /\ fight_urls = None
    /\ crawl_idx = 0
    /\ visited = None
    /\ crawl_fights = None

\* pre_2020_closing.main is not running
PreIdle ==
    /\ pre_listing = None
    /\ pre_pc = None
    /\ pre_todo = None
    /\ final_events = None
    /\ pre_odds_file = None
    /\ exceptions_file = None

\* parse_fight is not applied to a page of score rows
RoundsIdle ==
    /\ score_page = None
    /\ parsed_fight = None

\* process_stat_value is not applied
StatIdle ==
    /\ stat_value = None
    /\ stat_result = None

\* no date conversion is applied
DateIdle ==
    /\ date_str = None
    /\ date_result = None

\* parse_event is not run on a page of fight links
LinksIdle ==
    /\ link_site = None
    /\ link_order = None
    /\ link_run = None

\* UFCStatsScraper.get_latest is not running
LatestIdle ==
    /\ completed = None
    /\ cutoff = None
    /\ scraped = None

\* add_ufcstats_event_ids_to_judges_json is not running
OfflineIdle ==
    /\ ufcstats_page = None
    /\ judges_json_file = None
    /\ offline_pc = "done"
    /\ ufcstats_events = <<>>
    /\ judges_events = <<>>
    /\ match_log = <<>>
    /\ output_file = NotRun

\* load_all_fight_buttons is not running
ButtonsIdle ==
    /\ max_clicks = 0
    /\ clicks_done = 0
    /\ new_clicks = 0
    /\ buttons = 0
    /\ to_click = 0
    /\ buttons_pc = "done"

\* the programs are separate processes: a run of one of them (group g of
\* the variables) leaves the state of the others as it is
OthersIdle(g) ==
    /\ IF g = "espn" THEN TRUE ELSE EspnIdle
    /\ IF g = "odds" THEN TRUE ELSE OddsIdle
    /\ IF g = "api" THEN TRUE ELSE ApiIdle
    /\ IF g = "crawl" THEN TRUE ELSE CrawlIdle
    /\ IF g = "pre" THEN TRUE ELSE PreIdle
    /\ IF g = "rounds" THEN TRUE ELSE RoundsIdle
    /\ IF g = "stat" THEN TRUE ELSE StatIdle
    /\ IF g = "date" THEN TRUE ELSE DateIdle
    /\ IF g = "links" THEN TRUE ELSE LinksIdle
    /\ IF g = "latest" THEN TRUE ELSE LatestIdle
    /\ IF g = "offline" THEN TRUE ELSE OfflineIdle
    /\ IF g = "buttons" THEN TRUE ELSE ButtonsIdle

OthersUnchanged(g) ==
    /\ IF g = "espn" THEN TRUE ELSE UNCHANGED espnVars
    /\ IF g = "odds" THEN TRUE ELSE UNCHANGED oddsVars
    /\ IF g = "api" THEN TRUE ELSE UNCHANGED apiVars
    /\ IF g = "crawl" THEN TRUE ELSE UNCHANGED crawlVars
    /\ IF g = "pre" THEN TRUE ELSE UNCHANGED preVars
    /\ IF g = "rounds" THEN TRUE ELSE UNCHANGED roundsVars
    /\ IF g = "stat" THEN TRUE ELSE UNCHANGED statVars
    /\ IF g = "date" THEN TRUE ELSE UNCHANGED dateVars
    /\ IF g = "links" THEN TRUE ELSE UNCHANGED linksVars
    /\ IF g = "latest" THEN TRUE ELSE UNCHANGED latestVars
    /\ IF g = "offline" THEN TRUE ELSE UNCHANGED offlineVars
    /\ IF g = "buttons" THEN TRUE ELSE UNCHANGED buttonsVars

Max2(a, b) == IF a >= b THEN a ELSE b
Abs(n) == IF n < 0 THEN -n ELSE n

RECURSIVE SeqFilterNotNone(_)
SeqFilterNotNone(s) ==
    IF s = <<>> THEN <<>>
    ELSE IF Head(s) = None THEN SeqFilterNotNone(Tail(s))
         ELSE <<Head(s)>> \o SeqFilterNotNone(Tail(s))

SeqRange(s) == {s[i] : i \in 1..Len(s)}

-----------------------------------------------------------------------------
(* Text conversions used by the judge scrapers *)

\* int(text) on the cell texts of the model; any other text raises ValueError
IntText == ("10" :> 10) @@ ("9" :> 9) @@ ("8" :> 8) @@ ("30" :> 30) @@ ("27" :> 27)
IsIntText(t) == t \in DOMAIN IntText

\* A date text is [fmt, day]: fmt "long" is "%B %d, %Y", fmt "dmy" is
\* "%d/%m/%Y", anything else is parsed by neither; day counts calendar days.
DateText(fmt, day) == [fmt |-> fmt, day |-> day]
EmptyText == DateText("empty", 0)
StrptimeAnyText(t) == t.day
StrptimeLong(t) == IF t.fmt = "long" THEN t.day ELSE -1
StrptimeDmy(t) == IF t.fmt = "dmy" THEN t.day ELSE -1
StrftimeDmy(day) == DateText("dmy", day)


-----------------------------------------------------------------------------
(* fuzz.token_set_ratio on the location texts of the model.  The values    *)
(* are those of fuzzywuzzy's algorithm: 0 when either text is empty after  *)
(* processing, 100 for equal token sets, else the best of the three        *)
(* pairwise ratios of the sorted intersection and remainders.              *)

Locations == {"Las Vegas, NV", "Las Vegas, Nevada, USA", "Las Vegas, Nevada",
              "Miami, Florida, USA", "Paradise, Nevada, USA", ""}

RatioTable ==
    [p \in {<<"Las Vegas, Nevada, USA", "Las Vegas, NV">>,
            <<"Las Vegas, Nevada", "Las Vegas, NV">>,
            <<"Miami, Florida, USA", "Las Vegas, NV">>,
            <<"Paradise, Nevada, USA", "Las Vegas, NV">>} |->
        CASE p[1] = "Las Vegas, Nevada, USA" -> 86
          [] p[1] = "Las Vegas, Nevada" -> 86
          [] p[1] = "Miami, Florida, USA" -> 34
          [] p[1] = "Paradise, Nevada, USA" -> 26]

TokenSetRatio(s1, s2) ==
    IF s1 = "" \/ s2 = "" THEN 0
    ELSE IF s1 = s2 THEN 100
    ELSE IF <<s1, s2>> \in DOMAIN RatioTable THEN RatioTable[<<s1, s2>>]
    ELSE RatioTable[<<s2, s1>>]

-----------------------------------------------------------------------------
(* parse_fight: the part after the page is fetched (both scrapers) *)

RECURSIVE DashAsZero(_)
DashAsZero(rows) ==
    IF rows = <<>> THEN <<>>
    ELSE LET cells == Head(rows)
             rest == DashAsZero(Tail(rows))
             ZeroOr(t) == IF t = "-" THEN 0 ELSE IntText[t]
         IN IF Len(cells) < 3 THEN rest
            ELSE IF ~(cells[2] = "-" \/ IsIntText(cells[2])) THEN rest
            ELSE IF ~(cells[3] = "-" \/ IsIntText(cells[3])) THEN rest
            ELSE <<[round |-> cells[1], fighter1 |-> ZeroOr(cells[2]),
                    fighter2 |-> ZeroOr(cells[3])]>> \o rest

\* rounds_data of one judge table: rows with fewer than 3 cells, with a
\* "-" score or with a score int() rejects are skipped
RECURSIVE RoundsData(_)
RoundsData(rows) ==
    IF rows = <<>> THEN <<>>
    ELSE LET cells == Head(rows)
             rest == RoundsData(Tail(rows))
         IN IF Len(cells) < 3 THEN rest
            ELSE IF cells[2] = "-" \/ cells[3] = "-" THEN rest
            ELSE IF ~IsIntText(cells[2]) \/ ~IsIntText(cells[3]) THEN rest
            ELSE <<[round |-> cells[1], fighter1 |-> IntText[cells[2]],
                    fighter2 |-> IntText[cells[3]]]>> \o rest

\* totals of one judge table: {} unless the bottom row has 3 cells whose
\* second and third parse as integers
Totals(table) ==
    IF table.hasTotal /\ Len(table.total) >= 3
       /\ IsIntText(table.total[2]) /\ IsIntText(table.total[3])
    THEN [fighter1 |-> IntText[table.total[2]], fighter2 |-> IntText[table.total[3]]]
    ELSE [empty |-> TRUE]

\* judges_results: keyed by the table's index (the key f"Judge{idx}"); a
\* table without a judge cell is skipped (continue)
JudgesResults(tables) ==
    [idx \in {i \in 1..3 : tables[i].hasJudge} |->
        [judge_name |-> tables[idx].judge,
         rounds |-> RoundsData(tables[idx].rows),
         total |-> Totals(tables[idx])]]

ParseFightHtml(fight_url, html) ==
    LET fighter1 == IF Len(html.names) >= 2 THEN html.names[1] ELSE ""
        fighter2 == IF Len(html.names) >= 2 THEN html.names[2] ELSE ""
    IN IF Len(html.tables) < 3 THEN None
       ELSE [fight_url |-> fight_url,
             fighter1 |-> fighter1,
             fighter2 |-> fighter2,
             judges |-> JudgesResults(html.tables)]

-----------------------------------------------------------------------------
(* get_ufcstats_events: the rows kept from the UFCStats listing *)

RECURSIVE UfcRows(_)
UfcRows(rows) ==
    IF rows = <<>> THEN <<>>
    ELSE LET row == Head(rows)
             rest == UfcRows(Tail(rows))
         IN IF ~row.hasLink THEN rest
            ELSE IF ~row.hasDate THEN rest
            ELSE IF StrptimeLong(row.date) < 0 THEN rest
            ELSE <<[event_id |-> row.id,
                    event_date |-> StrptimeLong(row.date),
                    event_location |-> row.location]>> \o rest

-----------------------------------------------------------------------------
(* parse_event: the parts after the page is fetched *)

\* event_info after the name/location block of the async scraper (lines
\* 182-196) and of the sync scraper (lines 191-209): a top row without the
\* decision-top2 cell sets neither key
\* (parts[2] stands for ", ".join(parts[1:]))
EventNameLocation(html, date) ==
    IF html.top = "cell"
    THEN IF Len(html.parts) > 0
         THEN [name |-> html.parts[1],
               location |-> IF Len(html.parts) > 1 THEN html.parts[2] ELSE "",
               date |-> date]
         ELSE [name |-> "", location |-> "", date |-> date]
    ELSE IF html.top = "nocell" THEN [date |-> date]
    ELSE [name |-> "", location |-> "", date |-> date]

\* event_info['date']: the reformatted date, the raw text when it does not
\* parse, "" when the cell is missing
EventDate(html) ==
    IF html.hasDate
    THEN IF StrptimeLong(html.date) >= 0
         THEN StrftimeDmy(StrptimeLong(html.date))
         ELSE html.date
    ELSE EmptyText

EventInfo(html) == EventNameLocation(html, EventDate(html))

AnyName(name) == TRUE

\* 'UFC' in event_name, on the event names of the model
ContainsUFC(name) == name \in {"UFC 300", "UFC Fight Night"}

\* list(set(fight_links)): the distinct links, in the set's iteration order
RECURSIVE SetToList(_, _)
SetToList(S, order) ==
    IF order = <<>> THEN <<>>
    ELSE IF Head(order) \in S THEN <<Head(order)>> \o SetToList(S, Tail(order))
         ELSE SetToList(S, Tail(order))

EveryLink(html, order) == html.fights

FightLinks(html, order) == SetToList(SeqRange(html.fights), order)

BetterOrEqual(score, best_score) == score >= best_score

\* `if score > best_score`: a later candidate replaces the match only with
\* a strictly higher score
Better(score, best_score) == score > best_score

\* the matching loop: best_score, matched_event_id over ufc_events
RECURSIVE MatchLoop(_, _, _, _, _)
MatchLoop(ufc_events, event_date, location, best_score, matched) ==
    IF ufc_events = <<>> THEN matched
    ELSE LET u == Head(ufc_events)
             date_diff == Abs(u.event_date - event_date)
             score == TokenSetRatio(u.event_location, location)
         IN IF date_diff <= 1 /\ Better(score, best_score)
            THEN MatchLoop(Tail(ufc_events), event_date, location, score, u.event_id)
            ELSE MatchLoop(Tail(ufc_events), event_date, location, best_score, matched)

\* matched_event_id before a match; None and "" are both falsy at the only
\* test made of it, `if matched_event_id:`
NoMatch == ""

\* event_info.get("location", "")
GetLocation(event_info) ==
    IF "location" \in DOMAIN event_info THEN event_info.location ELSE ""

MatchedEventId(event_info, ufc_events) ==
    MatchLoop(ufc_events, StrptimeDmy(event_info.date), GetLocation(event_info), -1, NoMatch)

\* event_data: "event_id" is set only when a match was found
EventData(event_url, event_info, fights_data, matched_event_id) ==
    LET base == [event_url |-> event_url, event_details |-> event_info,
                 fights |-> fights_data]
    IN IF matched_event_id # NoMatch THEN base @@ [event_id |-> matched_event_id]
       ELSE base


-----------------------------------------------------------------------------
(* SyncJudgeScraper: requests.get raises on a transport error and returns  *)
(* a response with a status code otherwise.  s is the site.                *)

SyncParseFight(s, fight_url) ==
    LET page == s.fight[fight_url]
    IN IF page.fetch = "net_error" THEN Raised
       ELSE IF page.fetch = "http_error" THEN None
       ELSE ParseFightHtml(fight_url, page)

SyncGetUfcstatsEvents(s) ==
    IF s.ufc.fetch = "net_error" THEN Raised
    ELSE IF s.ufc.fetch = "http_error" THEN List(<<>>)
    ELSE List(UfcRows(s.ufc.rows))

\* the loop over fight_links: Raised as soon as one parse_fight raises,
\* else the records that are not None, in order
RECURSIVE SyncFightsData(_, _)
SyncFightsData(s, links) ==
    IF links = <<>> THEN List(<<>>)
    ELSE LET fight_data == SyncParseFight(s, Head(links))
         IN IF fight_data = Raised THEN Raised
            ELSE LET rest == SyncFightsData(s, Tail(links))
                 IN IF rest = Raised THEN Raised
                    ELSE IF fight_data = None THEN rest
                    ELSE List(<<fight_data>> \o rest.list)

\* lines 243-287: event_info['name'] raises KeyError when the key is unset
SyncMatchAndBuild(s, event_url, event_info, fights_data) ==
    IF "name" \notin DOMAIN event_info THEN Raised
    ELSE IF ContainsUFC(event_info.name) /\ StrptimeDmy(event_info.date) >= 0
    THEN LET ufc_events == SyncGetUfcstatsEvents(s)
         IN IF ufc_events = Raised THEN Raised
            ELSE EventData(event_url, event_info, fights_data,
                           MatchedEventId(event_info, ufc_events.list))
    ELSE EventData(event_url, event_info, fights_data, NoMatch)

SyncParseEvent(s, order, event_url) ==
    LET page == s.event[event_url]
    IN IF page.fetch = "net_error" THEN Raised
       ELSE IF page.fetch = "http_error" THEN None
       ELSE LET fights_data == SyncFightsData(s, FightLinks(page, order))
            IN IF fights_data = Raised THEN Raised
               ELSE SyncMatchAndBuild(s, event_url, EventInfo(page), fights_data.list)

RECURSIVE SyncEventsOfRows(_, _, _)
SyncEventsOfRows(s, order, rows) ==
    IF rows = <<>> THEN List(<<>>)
    ELSE LET event_data == SyncParseEvent(s, order, Head(rows))
         IN IF event_data = Raised THEN Raised
            ELSE LET rest == SyncEventsOfRows(s, order, Tail(rows))
                 IN IF rest = Raised THEN Raised
                    ELSE IF event_data = None THEN rest
                    ELSE List(<<event_data>> \o rest.list)

\* the loop over the years, from start_year (year) down to end_year (1)
RECURSIVE SyncParseAllEvents(_, _, _)
SyncParseAllEvents(s, order, year) ==
    IF year < 1 THEN List(<<>>)
    ELSE LET page == s.year[year]
             here == IF page.fetch = "net_error" THEN Raised
                     ELSE IF page.fetch = "http_error" THEN List(<<>>)
                     ELSE SyncEventsOfRows(s, order, page.rows)
         IN IF here = Raised THEN Raised
            ELSE LET rest == SyncParseAllEvents(s, order, year - 1)
                 IN IF rest = Raised THEN Raised ELSE List(here.list \o rest.list)

-----------------------------------------------------------------------------
(* The pages of the model *)

MaxLimit == 2      \* concurrency_limit ranges over 1..MaxLimit
NumYears == 2      \* parse_all_events runs from year NumYears down to year 1
NumEvents == 2     \* events listed on the year pages

FetchKinds == {"ok", "http_error", "net_error"}
Years == 1..NumYears
EventIds == 1..NumEvents
FightIds == {1, 2}

JudgeTable(judge) ==
    [hasJudge |-> TRUE, judge |-> judge,
     rows |-> << <<"1", "10", "9">>, <<"2", "-", "-">>, <<"3", "9", "10">> >>,
     hasTotal |-> TRUE, total |-> <<"Total", "30", "27">>]
NoJudgeTable ==
    [hasJudge |-> FALSE, judge |-> "",
     rows |-> << <<"1", "10", "9">> >>, hasTotal |-> FALSE, total |-> <<>>]

FightPage(fetch, names, tables) == [fetch |-> fetch, names |-> names, tables |-> tables]
GoodFight ==
    FightPage("ok", <<"Fighter A", "Fighter B">>,
              <<JudgeTable("D. Cleary"), JudgeTable("S. Bell"), JudgeTable("J. Lee")>>)
NoJudgeCellFight ==
    FightPage("ok", <<"Fighter A", "Fighter B">>,
              <<JudgeTable("D. Cleary"), NoJudgeTable, JudgeTable("J. Lee")>>)
TwoTablesFight ==
    FightPage("ok", <<"Fighter A">>, <<JudgeTable("D. Cleary"), JudgeTable("S. Bell")>>)
HttpErrorFight == FightPage("http_error", <<>>, <<>>)
NetErrorFight == FightPage("net_error", <<>>, <<>>)
FightPages == {GoodFight, NoJudgeCellFight, TwoTablesFight, HttpErrorFight, NetErrorFight}

EventPage(fetch, top, parts, hasDate, date, fights) ==
    [fetch |-> fetch, top |-> top, parts |-> parts, hasDate |-> hasDate,
     date |-> date, fights |-> fights]
UfcEvent == EventPage("ok", "cell", <<"UFC 300", "Las Vegas, NV">>, TRUE,
                      DateText("long", 10), <<1, 2, 1>>)
OtherEvent == EventPage("ok", "cell", <<"Bellator 1">>, TRUE,
                        DateText("long", 10), <<2>>)
NoCellEvent == EventPage("ok", "nocell", <<>>, TRUE, DateText("long", 10), <<1>>)
HttpErrorEvent == EventPage("http_error", "none", <<>>, FALSE, EmptyText, <<>>)
NetErrorEvent == EventPage("net_error", "none", <<>>, FALSE, EmptyText, <<>>)
EventPages == {UfcEvent, OtherEvent, NoCellEvent, HttpErrorEvent, NetErrorEvent}

UfcRow(id, date, location) ==
    [hasLink |-> TRUE, id |-> id, hasDate |-> TRUE, date |-> date, location |-> location]
UfcListing(fetch, rows) == [fetch |-> fetch, rows |-> rows]
GoodListing ==
    UfcListing("ok", <<UfcRow("u1", DateText("long", 10), "Miami, Florida, USA"),
                       UfcRow("u2", DateText("long", 11), "Las Vegas, Nevada, USA"),
                       UfcRow("u3", DateText("long", 13), "Las Vegas, NV")>>)
NetErrorListing == UfcListing("net_error", <<>>)

\* the year page of year y lists the events e with e = y modulo NumYears
RECURSIVE RowsOfYear(_, _)
RowsOfYear(y, e) ==
    IF e > NumEvents THEN <<>>
    ELSE IF e % NumYears = y % NumYears THEN <<e>> \o RowsOfYear(y, e + 1)
         ELSE RowsOfYear(y, e + 1)
YearPage(fetch, y) == [fetch |-> fetch, rows |-> IF fetch = "ok" THEN RowsOfYear(y, 1) ELSE <<>>]

Site(yearFetch, eventPages, fightPages, listing) ==
    [year |-> [y \in Years |-> YearPage(yearFetch[y], y)],
     event |-> eventPages, fight |-> fightPages, ufc |-> listing]

\* the sites of the judges runs: the pages of one level vary, the others
\* are well-formed
JudgeSites ==
    {Site(yf, [e \in EventIds |-> UfcEvent], [f \in FightIds |-> GoodFight], GoodListing) :
        yf \in [Years -> FetchKinds]}
    \cup {Site([y \in Years |-> "ok"], [e \in EventIds |-> IF e = k THEN ep ELSE UfcEvent],
               [f \in FightIds |-> GoodFight], GoodListing) :
            k \in EventIds, ep \in EventPages}
    \cup {Site([y \in Years |-> "ok"], [e \in EventIds |-> ep],
               [f \in FightIds |-> GoodFight], GoodListing) :
            ep \in EventPages}
    \cup {Site([y \in Years |-> "ok"], [e \in EventIds |-> ep],
               [f \in FightIds |-> GoodFight], NetErrorListing) :
            ep \in {UfcEvent, OtherEvent}}
    \cup {Site([y \in Years |-> "ok"], [e \in EventIds |-> UfcEvent], fp, GoodListing) :
            fp \in [FightIds -> FightPages]}

Permutations2 == {<<1, 2>>, <<2, 1>>}

-----------------------------------------------------------------------------
(* AsyncJudgeScraper: one asyncio task per parse_event and per parse_fight *)
(* call, and the coroutine of parse_all_events (Main).                     *)

Main == <<"main", 0, 0>>
Ev(e) == <<"event", e, 0>>
Fi(e, f) == <<"fight", e, f>>
AllTasks == {Main} \cup {Ev(e) : e \in EventIds}
                   \cup {Fi(e, f) : e \in EventIds, f \in FightIds}

SemaphoreFreeNoWait(sem) == TRUE

SemaphoreSpare(sem) == sem > 1

\* async with self.semaphore: a slot is taken only when one is free
SemaphoreFree(sem) == sem > 0

\* what fetch_html returns: page.goto raises on a transport error only, and
\* every exception is caught and turned into None
FetchHtml(page) == IF page.fetch = "net_error" THEN None ELSE page

\* the contexts open after fetch_html returns: context.close() is reached
\* only when no call of the try block raised
ContextsAfterFetch(page, open) == IF page.fetch = "net_error" THEN open ELSE open - 1

InFlight == {t \in AllTasks : pc[t] \in {"fetching", "ufc_fetching"}}

\* fights_data of an event whose fight tasks have finished
RECURSIVE GatherFights(_, _, _)
GatherFights(r, e, links) ==
    IF links = <<>> THEN <<>>
    ELSE IF r[Fi(e, Head(links))] = None THEN GatherFights(r, e, Tail(links))
         ELSE <<r[Fi(e, Head(links))]>> \o GatherFights(r, e, Tail(links))

RECURSIVE GatherEvents(_, _)
GatherEvents(r, ts) ==
    IF ts = <<>> THEN <<>>
    ELSE IF r[Ev(Head(ts))] = None THEN GatherEvents(r, Tail(ts))
         ELSE <<r[Ev(Head(ts))]>> \o GatherEvents(r, Tail(ts))

\* event_info.get('name', '')
GetName(event_info) == IF "name" \in DOMAIN event_info THEN event_info.name ELSE ""

\* lines 240: whether parse_event goes on to fetch the UFCStats listing
AsyncWantsMatch(event_info) ==
    ContainsUFC(GetName(event_info)) /\ StrptimeDmy(event_info.date) >= 0

\* get_ufcstats_events, given what fetch_html returned
AsyncUfcEvents(html) == IF html = None THEN <<>> ELSE UfcRows(html.rows)

JudgesInit ==
    /\ OthersIdle("judges")
    /\ site \in JudgeSites
    /\ hashOrder \in Permutations2
    /\ limit \in 1..MaxLimit
    /\ semaphore = limit
    /\ pc = [t \in AllTasks |-> IF t = Main THEN "fetch" ELSE "idle"]
    /\ ret = [t \in AllTasks |-> NotRun]
    /\ yearIdx = NumYears
    /\ tasks = <<>>
    /\ openContexts = 0
    /\ asyncOut = NotRun
    /\ syncOut = NotRun

\* fetch_html up to browser.new_context(): the task takes a slot
Acquire(t) ==
    /\ OthersUnchanged("judges")
    /\ pc[t] \in {"fetch", "ufc_fetch"}
    /\ SemaphoreFree(semaphore)
    /\ semaphore' = semaphore - 1
    /\ openContexts' = openContexts + 1
    /\ pc' = [pc EXCEPT ![t] = IF pc[t] = "fetch" THEN "fetching" ELSE "ufc_fetching"]
    /\ UNCHANGED <<site, hashOrder, limit, ret, yearIdx, tasks, asyncOut, syncOut>>

\* parse_all_events: the year page arrives, its events become tasks, and
\* the loop moves to the next year or to the gather
MainFetched ==
    /\ OthersUnchanged("judges")
    /\ pc[Main] = "fetching"
    /\ LET page == site.year[yearIdx]
           html == FetchHtml(page)
           rows == IF html = None THEN <<>> ELSE html.rows
       IN /\ semaphore' = semaphore + 1
          /\ openContexts' = ContextsAfterFetch(page, openContexts)
          /\ tasks' = tasks \o rows
          /\ yearIdx' = yearIdx - 1
          /\ pc' = [t \in AllTasks |->
                      IF t = Main THEN (IF yearIdx - 1 < 1 THEN "gather" ELSE "fetch")
                      ELSE IF \E i \in 1..Len(rows) : t = Ev(rows[i]) THEN "fetch"
                      ELSE pc[t]]
    /\ UNCHANGED <<site, hashOrder, limit, ret, asyncOut, syncOut>>

\* parse_event: the event page arrives; one task per distinct fight link
EventFetched(e) ==
    /\ OthersUnchanged("judges")
    /\ pc[Ev(e)] = "fetching"
    /\ LET page == site.event[e]
           html == FetchHtml(page)
           links == IF html = None THEN <<>> ELSE FightLinks(html, hashOrder)
       IN /\ semaphore' = semaphore + 1
          /\ openContexts' = ContextsAfterFetch(page, openContexts)
          /\ ret' = [ret EXCEPT ![Ev(e)] = IF html = None THEN None ELSE @]
          /\ pc' = [t \in AllTasks |->
                      IF t = Ev(e) THEN (IF html = None THEN "done" ELSE "gather")
                      ELSE IF \E i \in 1..Len(links) : t = Fi(e, links[i]) THEN "fetch"
                      ELSE pc[t]]
    /\ UNCHANGED <<site, hashOrder, limit, yearIdx, tasks, asyncOut, syncOut>>

\* parse_fight: the fight page arrives and is parsed
FightFetched(e, f) ==
    /\ OthersUnchanged("judges")
    /\ pc[Fi(e, f)] = "fetching"
    /\ LET page == site.fight[f]
           html == FetchHtml(page)
       IN /\ semaphore' = semaphore + 1
          /\ openContexts' = ContextsAfterFetch(page, openContexts)
          /\ ret' = [ret EXCEPT ![Fi(e, f)] =
                        IF html = None THEN None ELSE ParseFightHtml(f, html)]
          /\ pc' = [pc EXCEPT ![Fi(e, f)] = "done"]
    /\ UNCHANGED <<site, hashOrder, limit, yearIdx, tasks, asyncOut, syncOut>>

\* parse_event after asyncio.gather(*tasks): either the event is finished
\* without an id or the UFCStats listing is fetched
EventGathered(e) ==
    /\ OthersUnchanged("judges")
    /\ pc[Ev(e)] = "gather"
    /\ LET page == site.event[e]
           links == FightLinks(page, hashOrder)
           event_info == EventInfo(page)
       IN /\ \A i \in 1..Len(links) : pc[Fi(e, links[i])] = "done"
          /\ IF AsyncWantsMatch(event_info)
             THEN /\ pc' = [pc EXCEPT ![Ev(e)] = "ufc_fetch"]
                  /\ ret' = ret
             ELSE /\ pc' = [pc EXCEPT ![Ev(e)] = "done"]
                  /\ ret' = [ret EXCEPT ![Ev(e)] =
                                EventData(e, event_info, GatherFights(ret, e, links), NoMatch)]
    /\ UNCHANGED <<site, hashOrder, limit, semaphore, yearIdx, tasks, openContexts,
                   asyncOut, syncOut>>

\* parse_event after get_ufcstats_events: the match and the event record
EventUfcFetched(e) ==
    /\ OthersUnchanged("judges")
    /\ pc[Ev(e)] = "ufc_fetching"
    /\ LET page == site.event[e]
           links == FightLinks(page, hashOrder)
           event_info == EventInfo(page)
           ufc_events == AsyncUfcEvents(FetchHtml(site.ufc))
       IN /\ semaphore' = semaphore + 1
          /\ openContexts' = ContextsAfterFetch(site.ufc, openContexts)
          /\ ret' = [ret EXCEPT ![Ev(e)] =
                        EventData(e, event_info, GatherFights(ret, e, links),
                                  MatchedEventId(event_info, ufc_events))]
          /\ pc' = [pc EXCEPT ![Ev(e)] = "done"]
    /\ UNCHANGED <<site, hashOrder, limit, yearIdx, tasks, asyncOut, syncOut>>

\* parse_all_events after asyncio.gather(*tasks)
MainGathered ==
    /\ OthersUnchanged("judges")
    /\ pc[Main] = "gather"
    /\ \A i \in 1..Len(tasks) : pc[Ev(tasks[i])] = "done"
    /\ asyncOut' = List(GatherEvents(ret, tasks))
    /\ pc' = [pc EXCEPT ![Main] = "done"]
    /\ UNCHANGED <<site, hashOrder, limit, semaphore, ret, yearIdx, tasks, openContexts,
                   syncOut>>

\* SyncJudgeScraper.parse_all_events over the same pages
SyncRun ==
    /\ OthersUnchanged("judges")
    /\ pc[Main] = "done"
    /\ syncOut = NotRun
    /\ syncOut' = SyncParseAllEvents(site, hashOrder, NumYears)
    /\ UNCHANGED <<site, hashOrder, limit, semaphore, pc, ret, yearIdx, tasks,
                   openContexts, asyncOut>>

JudgesNext ==
    \/ \E t \in AllTasks : Acquire(t)
    \/ MainFetched
    \/ \E e \in EventIds : EventFetched(e)
    \/ \E e \in EventIds, f \in FightIds : FightFetched(e, f)
    \/ \E e \in EventIds : EventGathered(e)
    \/ \E e \in EventIds : EventUfcFetched(e)
    \/ MainGathered
    \/ SyncRun

SpecJudges == JudgesInit /\ [][JudgesNext]_vars

-----------------------------------------------------------------------------
(* parse_event and parse_fight of the async scraper as values: what the    *)
(* tasks return, whatever the interleaving                                 *)

AsyncParseFight(s, fight_url) ==
    LET html == FetchHtml(s.fight[fight_url])
    IN IF html = None THEN None ELSE ParseFightHtml(fight_url, html)

RECURSIVE AsyncFightsData(_, _)
AsyncFightsData(s, links) ==
    IF links = <<>> THEN <<>>
    ELSE LET fight_data == AsyncParseFight(s, Head(links))
         IN IF fight_data = None THEN AsyncFightsData(s, Tail(links))
            ELSE <<fight_data>> \o AsyncFightsData(s, Tail(links))

AsyncParseEvent(s, order, event_url) ==
    LET html == FetchHtml(s.event[event_url])
    IN IF html = None THEN None
       ELSE LET event_info == EventInfo(html)
                fights_data == AsyncFightsData(s, FightLinks(html, order))
            IN EventData(event_url, event_info, fights_data,
                         IF AsyncWantsMatch(event_info)
                         THEN MatchedEventId(event_info, AsyncUfcEvents(FetchHtml(s.ufc)))
                         ELSE NoMatch)

-----------------------------------------------------------------------------
(* The matcher on bounded listings: parse_event of both scrapers applied   *)
(* to one event page and one UFCStats listing                              *)

MaxCandidates == 3     \* rows of the UFCStats listing

CandidateId(i) == "u" \o ToString(i)

CandidateRow(d, l) == [date |-> DateText("long", d), location |-> l]
CandidateRows ==
    {CandidateRow(9, "Las Vegas, Nevada"), CandidateRow(10, "Las Vegas, Nevada, USA"),
     CandidateRow(11, "Las Vegas, Nevada"), CandidateRow(12, "Las Vegas, Nevada, USA"),
     CandidateRow(10, "Miami, Florida, USA"), CandidateRow(11, "Miami, Florida, USA"),
     CandidateRow(10, ""),
     [date |-> DateText("bad", 10), location |-> "Las Vegas, Nevada, USA"]}

MatchListings ==
    UNION {{UfcListing("ok", [i \in 1..n |-> UfcRow(CandidateId(i), f[i].date, f[i].location)]) :
                f \in [1..n -> CandidateRows]} : n \in 0..MaxCandidates}

MatchEventPages ==
    {EventPage("ok", "cell", <<"UFC 300", "Las Vegas, NV">>, TRUE, DateText("long", 10), <<>>),
     EventPage("ok", "cell", <<"UFC 300">>, TRUE, DateText("long", 10), <<>>),
     EventPage("ok", "cell", <<"UFC 300", "Las Vegas, NV">>, TRUE, DateText("dmy", 11), <<>>),
     EventPage("ok", "cell", <<"UFC 300", "Las Vegas, NV">>, TRUE, DateText("bad", 10), <<>>),
     EventPage("ok", "cell", <<"Bellator 1", "Las Vegas, NV">>, TRUE, DateText("long", 10), <<>>)}

MatchSites ==
    {Site([y \in Years |-> "ok"], [e \in EventIds |-> ep], [f \in FightIds |-> GoodFight], l) :
        ep \in MatchEventPages, l \in MatchListings}

JudgesIdle ==
    /\ limit = 1
    /\ semaphore = 1
    /\ pc = [t \in AllTasks |-> "idle"]
    /\ ret = [t \in AllTasks |-> NotRun]
    /\ yearIdx = NumYears
    /\ tasks = <<>>
    /\ openContexts = 0

MatchInit ==
    /\ OthersIdle("judges")
    /\ site \in MatchSites
    /\ hashOrder = <<1, 2>>
    /\ JudgesIdle
    /\ asyncOut = NotRun
    /\ syncOut = NotRun

\* SyncJudgeScraper.parse_event on event page 1
MatchSync ==
    /\ OthersUnchanged("judges")
    /\ syncOut = NotRun
    /\ syncOut' = SyncParseEvent(site, hashOrder, 1)
    /\ UNCHANGED <<site, hashOrder, limit, semaphore, pc, ret, yearIdx, tasks,
                   openContexts, asyncOut>>

\* AsyncJudgeScraper.parse_event on event page 1
MatchAsync ==
    /\ OthersUnchanged("judges")
    /\ syncOut # NotRun
    /\ asyncOut = NotRun
    /\ asyncOut' = AsyncParseEvent(site, hashOrder, 1)
    /\ UNCHANGED <<site, hashOrder, limit, semaphore, pc, ret, yearIdx, tasks,
                   openContexts, syncOut>>

MatchNext == MatchSync \/ MatchAsync

SpecMatch == MatchInit /\ [][MatchNext]_vars

-----------------------------------------------------------------------------
(* Claims about the judge-scorecard pipeline *)

\* the events listed on the year pages, and the pages that are well-formed
ListedEvents == UNION {SeqRange(site.year[y].rows) : y \in Years}
FailuresOnlyBelowYears ==
    /\ \A y \in Years : site.year[y].fetch = "ok"
    /\ site.ufc.fetch = "ok"
GoodEventPage(e) == site.event[e].fetch = "ok" /\ site.event[e].top = "cell"
GoodFightPage(f) == site.fight[f].fetch = "ok" /\ Len(site.fight[f].tables) >= 3

\* every well-formed event of the listing is in the returned list, with
\* every well-formed fight of its page
SiblingsKept(out) ==
    /\ out # Raised
    /\ \A e \in ListedEvents :
          GoodEventPage(e) =>
             \E i \in 1..Len(out.list) :
                /\ out.list[i].event_url = e
                /\ \A f \in SeqRange(site.event[e].fights) :
                      GoodFightPage(f) =>
                         \E k \in 1..Len(out.list[i].fights) :
                            out.list[i].fights[k].fight_url = f

\* C1: when only event pages and fight pages fail (fetch or parse), the run
\* of either scraper does not abort and every sibling page whose fetch and
\* parse succeed is in the returned list.
C1_SiblingsSurvive ==
    FailuresOnlyBelowYears =>
       /\ asyncOut # NotRun => SiblingsKept(asyncOut)
       /\ syncOut # NotRun => SiblingsKept(syncOut)

\* an event record with its fights as a set and its optional event_id
EventKey(ev) ==
    [event_url |-> ev.event_url, event_details |-> ev.event_details,
     fights |-> SeqRange(ev.fights),
     event_id |-> IF "event_id" \in DOMAIN ev THEN ev.event_id ELSE NoMatch]
EventKeys(out) == {EventKey(out.list[i]) : i \in 1..Len(out.list)}

\* C2: over the same pages and the same failing fetches, the async and the
\* sync parse_all_events return the same set of event records (details,
\* set of fight records, event_id), whatever the interleaving of the tasks.
C2_AsyncEqualsSync ==
    (asyncOut # NotRun /\ syncOut # NotRun) =>
       /\ syncOut # Raised
       /\ EventKeys(asyncOut) = EventKeys(syncOut)

\* C3: the page fetches in flight never exceed concurrency_limit; a further
\* fetch waits for a slot.
C3_InFlightBounded == Cardinality(InFlight) <= limit

\* all the slots are taken and another task is waiting for one
C3_Witness ==
    /\ limit = MaxLimit
    /\ Cardinality(InFlight) = limit
    /\ \E t \in AllTasks : pc[t] \in {"fetch", "ufc_fetch"}

\* the fight records returned so far by either scraper
FightRecordsOf(out) ==
    IF out \in {NotRun, Raised} THEN {}
    ELSE UNION {SeqRange(out.list[i].fights) : i \in 1..Len(out.list)}
FightRecords ==
    {ret[t] : t \in {u \in AllTasks : u[1] = "fight" /\ pc[u] = "done" /\ ret[u] # None}}
    \cup FightRecordsOf(asyncOut) \cup FightRecordsOf(syncOut)

\* C5: every fight record returned by parse_fight, and so every fight of an
\* event's fights list, carries exactly 3 judge scorecards.
C5_ThreeScorecards ==
    \A r \in FightRecords : Cardinality(DOMAIN r.judges) = 3

-----------------------------------------------------------------------------
(* Claims about the matcher *)

MatchRows == site.ufc.rows
MatchPage == site.event[1]
MatchDay == StrptimeDmy(EventDate(MatchPage))
MatchLocation == IF Len(MatchPage.parts) > 1 THEN MatchPage.parts[2] ELSE ""
\* the candidates of the listing dated within one day of the event
Within ==
    {i \in 1..Len(MatchRows) :
        MatchRows[i].date.fmt = "long" /\ Abs(MatchRows[i].date.day - MatchDay) <= 1}
Score(i) == TokenSetRatio(MatchRows[i].location, MatchLocation)
IsFirstBest(i) ==
    /\ i \in Within
    /\ \A j \in Within : Score(j) <= Score(i)
    /\ \A j \in Within : j < i => Score(j) < Score(i)
MatchExpected(out) ==
    IF Within = {} THEN "event_id" \notin DOMAIN out
    ELSE /\ "event_id" \in DOMAIN out
         /\ \E i \in Within : IsFirstBest(i) /\ out.event_id = MatchRows[i].id

\* C4: for an event whose name contains 'UFC' and whose date parses, the
\* attached event_id is that of the first candidate, in listing order, with
\* the highest location score among the candidates dated within one day;
\* the size of the date difference plays no role; without such a candidate
\* no event_id is attached.
C4_FirstBestWithinWindow ==
    (ContainsUFC(MatchPage.parts[1]) /\ MatchDay >= 0) =>
       /\ syncOut # NotRun => MatchExpected(syncOut)
       /\ asyncOut # NotRun => MatchExpected(asyncOut)

\* two candidates tie at the best score, the first of them is a day off and
\* is chosen, and a candidate of the event's own day scores less
C4_Witness ==
    /\ asyncOut # NotRun
    /\ ContainsUFC(MatchPage.parts[1]) /\ MatchDay >= 0
    /\ "event_id" \in DOMAIN asyncOut
    /\ \E i, j, k \in Within :
          /\ IsFirstBest(i) /\ i < j /\ Score(j) = Score(i)
          /\ MatchRows[i].date.day # MatchDay
          /\ MatchRows[k].date.day = MatchDay /\ Score(k) < Score(i) /\ k < i
          /\ asyncOut.event_id = MatchRows[i].id
          /\ syncOut.event_id = MatchRows[i].id

-----------------------------------------------------------------------------
(* ESPN fight center: result texts and their parsers                       *)
(*                                                                         *)
(* A result text is a record of its shape:                                 *)
(*   final: "Final" method [" "] "R" digits ", " m ":" s                   *)
(*   live:  ["END "] "R" digits [", " m ":" s]                             *)
(*   tag:   a lifecycle tag;   other: any other text                       *)
(* digits is the sequence of decimal digits after the "R".                 *)

Absent == [absent |-> TRUE]      \* the key is not in the dict
StrVal(x) == [str |-> x]
IntVal(x) == [int |-> x]

FinalText(method, gap, digits, m, sec) ==
    [shape |-> "final", method |-> method, gap |-> gap, digits |-> digits,
     m |-> m, s |-> sec]
LiveText(end, digits, hasTime, m, sec) ==
    [shape |-> "live", end |-> end, digits |-> digits, hasTime |-> hasTime, m |-> m, s |-> sec]
TagText(tag) == [shape |-> "tag", tag |-> tag]
OtherText == [shape |-> "other"]

\* the methods the pattern accepts
Methods == {"KO/TKO", "S Dec", "U Dec", "Sub", "No Contest"}
AsWritten(tag) == tag

\* str.upper() on the tags of the model
Upper(tag) == IF tag = "Pre-Fight" THEN "PRE-FIGHT" ELSE tag
LifecycleTags == {"PRE-FIGHT", "WALKOUTS", "INTROS"}

\* the round text "R" + digits and the time text m ":" s, as matched
RoundStr(digits) == [digits |-> digits]
TimeStr(m, sec) == [m |-> m, s |-> sec]

RECURSIVE DigitsValue(_)
DigitsValue(digits) ==
    IF digits = <<>> THEN 0
    ELSE 10 * DigitsValue(SubSeq(digits, 1, Len(digits) - 1)) + digits[Len(digits)]

ParseWithGap(text) ==
    IF text.shape = "final" /\ text.method \in Methods
    THEN <<StrVal(text.method), RoundStr(text.digits), TimeStr(text.m, text.s)>>
    ELSE <<None, None, None>>

\* pattern.match of get_final_score: (method, round, time) or all None; the
\* pattern has nothing between the method and the "R"
ParseFinalResult(text) ==
    IF text.shape = "final" /\ text.method \in Methods /\ ~text.gap
    THEN <<StrVal(text.method), RoundStr(text.digits), TimeStr(text.m, text.s)>>
    ELSE <<None, None, None>>

\* parse_fight_result of get_curr_score
ParseLiveResult(text) ==
    IF text.shape = "tag" /\ Upper(text.tag) \in LifecycleTags
    THEN <<StrVal(Upper(text.tag)), None, None>>
    ELSE IF text.shape = "final" THEN ParseFinalResult(text)
    ELSE IF text.shape = "live"
    THEN <<None, RoundStr(text.digits),
           IF text.hasTime THEN TimeStr(text.m, text.s) ELSE None>>
    ELSE <<None, None, None>>

\* int(round_num[1]): the character after the "R"
RoundIndex(round_num) == round_num.digits[1] - 1

\* fight_info.update(...) and the timestamp block of get_final_score and
\* get_curr_score: the timestamp is written only when both the round and
\* the time are set
WithScore(fight_info, parsed) ==
    LET updated == [fight_info EXCEPT !.method = parsed[1], !.round = parsed[2],
                                      !.time = parsed[3]]
    IN IF parsed[2] # None /\ parsed[3] # None
       THEN [updated EXCEPT !.timestamp =
                IntVal(RoundIndex(parsed[2]) * 5 * 60 + parsed[3].m * 60 + parsed[3].s)]
       ELSE updated

-----------------------------------------------------------------------------
(* ESPN fight center: the extractors.  A fight segment is a record         *)
(*   names: texts of the fighter-name spans                                *)
(*   post:  the "--post" score cells (historical), each [hasDiv, text]     *)
(*   live:  the "--in" score cells (live), each [text]                     *)
(*   victory: texts of the gameStripBarVictory elements                    *)
(*   rows:  the <li> of the matchup, each [values, labels]                 *)
(* An extractor returns [raised, info]: the dict is changed in place, so   *)
(* what was written before an exception stays written.                     *)

EmptyInfo ==
    [fighter1 |-> Absent, fighter2 |-> Absent, method |-> Absent, round |-> Absent,
     time |-> Absent, timestamp |-> Absent, fighter_victory |-> Absent]

Returned(info) == [raised |-> FALSE, info |-> info]
Threw(info) == [raised |-> TRUE, info |-> info]

\* {name: {}}: a fighter entry with an empty stat dict (a set of
\* <<label, value>> pairs)
Fighter(name) == [name |-> name, stats |-> {}]

KeepStatsOfSameName(fight, fight_info) ==
    IF Len(fight.names) < 2 THEN Threw(fight_info)
    ELSE LET keep(old, name) ==
                 IF old # Absent /\ old.name = name THEN old ELSE Fighter(name)
         IN Returned([fight_info EXCEPT
                         !.fighter1 = keep(fight_info.fighter1, fight.names[1]),
                         !.fighter2 = keep(fight_info.fighter2, fight.names[2])])

\* get_fighter_names: fighters[0] and fighters[1] raise IndexError when the
\* span is missing
GetFighterNames(fight, fight_info) ==
    IF Len(fight.names) = 0 THEN Threw(fight_info)
    ELSE IF Len(fight.names) = 1
    THEN Threw([fight_info EXCEPT !.fighter1 = Fighter(fight.names[1])])
    ELSE Returned([fight_info EXCEPT !.fighter1 = Fighter(fight.names[1]),
                                     !.fighter2 = Fighter(fight.names[2])])

\* get_final_score: fight_score[0].find("div").text raises AttributeError
\* when the cell has no inner div
GetFinalScore(fight, fight_info) ==
    IF fight.post = <<>> THEN Returned(WithScore(fight_info, <<None, None, None>>))
    ELSE IF ~fight.post[1].hasDiv THEN Threw(fight_info)
    ELSE Returned(WithScore(fight_info, ParseFinalResult(fight.post[1].text)))

\* get_curr_score
GetCurrScore(fight, fight_info) ==
    IF fight.live = <<>> THEN Returned(WithScore(fight_info, <<None, None, None>>))
    ELSE Returned(WithScore(fight_info, ParseLiveResult(fight.live[1].text)))

\* get_round_victory_info
GetRoundVictoryInfo(fight, fight_info) ==
    Returned([fight_info EXCEPT !.fighter_victory =
                 IF fight.victory # <<>> THEN StrVal(fight.victory[1]) ELSE None])

SetStat(fighter, key, value) ==
    [fighter EXCEPT !.stats = {p \in @ : p[1] # key} \cup {<<key, value>>}]

\* get_fight_statistics: a row with two values and no label element raises
\* IndexError
RECURSIVE GetFightStatistics(_, _)
GetFightStatistics(rows, fight_info) ==
    IF rows = <<>> THEN Returned(fight_info)
    ELSE LET row == Head(rows)
         IN IF Len(row.values) # 2 THEN GetFightStatistics(Tail(rows), fight_info)
            ELSE IF row.labels = <<>> THEN Threw(fight_info)
            ELSE GetFightStatistics(Tail(rows),
                    [fight_info EXCEPT
                        !.fighter1 = SetStat(@, row.labels[1], row.values[1]),
                        !.fighter2 = SetStat(@, row.labels[1], row.values[2])])

\* LiveESPNScraper.get_live_fight_info on self.fight_info
GetLiveFightInfo(html, fight_info) ==
    IF html.segments = <<>> THEN Threw(fight_info)
    ELSE LET fight == html.segments[1]
             named == GetFighterNames(fight, fight_info)
         IN IF named.raised THEN named
            ELSE GetFightStatistics(fight.rows, GetCurrScore(fight, named.info).info)

\* one iteration of the loop of get_fight_info_from_fight_id
SegmentInfo(fight) ==
    LET named == GetFighterNames(fight, EmptyInfo)
    IN IF named.raised THEN named
       ELSE LET scored == GetFinalScore(fight, named.info)
            IN IF scored.raised THEN scored
               ELSE GetFightStatistics(fight.rows,
                       GetRoundVictoryInfo(fight, scored.info).info)

\* ESPNHistoricalScrapper.get_fight_info_from_fight_id: self.fights after
\* the call, and whether it raised
RECURSIVE GetFightInfoFromFightId(_, _)
GetFightInfoFromFightId(segments, fights) ==
    IF segments = <<>> THEN [raised |-> FALSE, fights |-> fights]
    ELSE LET one == SegmentInfo(Head(segments))
         IN IF one.raised THEN [raised |-> TRUE, fights |-> fights]
            ELSE GetFightInfoFromFightId(Tail(segments), Append(fights, one.info))

-----------------------------------------------------------------------------
(* The extractors on pages with and without their anchors: the live loop   *)
(* of monitor_fight, one historical extraction, and parse_event of both    *)
(* judge scrapers on one event page                                        *)

MaxPolls == 2        \* iterations of the loop of monitor_fight
MaxSegments == 2     \* fight segments of a historical page

StatRow(values, labels) == [values |-> values, labels |-> labels]
KdRow == StatRow(<<"0", "1">>, <<"KD">>)
KdRowLater == StatRow(<<"1", "1">>, <<"KD">>)
ControlRow == StatRow(<<"0:50", "1:10">>, <<"Control">>)
OneValueRow == StatRow(<<"0">>, <<"KD">>)
NoLabelRow == StatRow(<<"0", "1">>, <<>>)
RowLists ==
    {<<>>, <<KdRow>>, <<KdRow, ControlRow>>, <<KdRow, KdRowLater>>,
     <<OneValueRow, ControlRow>>, <<KdRow, NoLabelRow>>}

NameLists == {<<>>, <<"Fighter A">>, <<"Fighter A", "Fighter B">>, <<"Fighter C", "Fighter B">>}

Segment(names, post, live, victory, rows) ==
    [names |-> names, post |-> post, live |-> live, victory |-> victory, rows |-> rows]
LiveCell(text) == <<[text |-> text]>>
PostCell(hasDiv, text) == <<[hasDiv |-> hasDiv, text |-> text]>>

Round3 == LiveText(FALSE, <<3>>, TRUE, 2, 30)          \* "R3, 2:30"
LiveTexts ==
    {Round3,
     LiveText(FALSE, <<1, 0>>, TRUE, 1, 0),            \* "R10, 1:00"
     LiveText(TRUE, <<2>>, FALSE, 0, 0),               \* "END R2"
     LiveText(TRUE, <<1>>, TRUE, 5, 0),                \* "END R1, 5:00"
     LiveText(FALSE, <<4>>, FALSE, 0, 0),              \* "R4"
     TagText("Pre-Fight"),
     TagText("WALKOUTS"),
     OtherText,
     FinalText("KO/TKO", FALSE, <<3>>, 2, 30),         \* "FinalKO/TKOR3, 2:30"
     FinalText("Draw", FALSE, <<3>>, 5, 0)}            \* "FinalDrawR3, 5:00"

LiveSegments ==
    {Segment(n, <<>>, LiveCell(Round3), <<>>, <<KdRow>>) : n \in NameLists}
    \cup {Segment(<<"Fighter A", "Fighter B">>, <<>>, c, <<>>, r) :
            c \in {<<>>} \cup {LiveCell(t) : t \in LiveTexts},
            r \in {<<>>, <<KdRow, ControlRow>>}}
    \cup {Segment(n, <<>>, LiveCell(Round3), <<>>, r) :
            n \in {<<"Fighter A", "Fighter B">>, <<"Fighter C", "Fighter B">>},
            r \in RowLists}

Page(segments) == [segments |-> segments]
LivePages == {Page(<<>>)} \cup {Page(<<seg>>) : seg \in LiveSegments}

FinalTexts ==
    {FinalText("KO/TKO", FALSE, <<3>>, 2, 30),         \* "FinalKO/TKOR3, 2:30"
     FinalText("KO/TKO", TRUE, <<3>>, 2, 30),          \* "FinalKO/TKO R3, 2:30"
     FinalText("Sub", FALSE, <<1, 0>>, 1, 0),          \* "FinalSubR10, 1:00"
     FinalText("U Dec", FALSE, <<5>>, 5, 0),           \* "FinalU DecR5, 5:00"
     FinalText("Draw", FALSE, <<3>>, 5, 0),
     OtherText}

HistSegments ==
    {Segment(n, PostCell(TRUE, FinalText("KO/TKO", FALSE, <<3>>, 2, 30)), <<>>,
             <<"Fighter A">>, <<KdRow>>) : n \in NameLists}
    \cup {Segment(<<"Fighter A", "Fighter B">>, c, <<>>, v, <<KdRow, ControlRow>>) :
            c \in {<<>>, PostCell(FALSE, OtherText)} \cup {PostCell(TRUE, t) : t \in FinalTexts},
            v \in {<<>>, <<"Fighter B">>}}
    \cup {Segment(<<"Fighter A", "Fighter B">>, <<>>, <<>>, <<>>, r) : r \in RowLists}

GoodSegment ==
    Segment(<<"Fighter A", "Fighter B">>, PostCell(TRUE, FinalText("U Dec", FALSE, <<3>>, 5, 0)),
            <<>>, <<"Fighter A">>, <<KdRow>>)
\* pages of up to MaxSegments segments, one of them any segment of the model
HistPages ==
    {Page(<<>>)}
    \cup {Page([i \in 1..n |-> IF i = k THEN seg ELSE GoodSegment]) :
            n \in 1..MaxSegments, k \in 1..MaxSegments, seg \in HistSegments}

\* event pages with and without the event-name cell and the date cell
AnchorSites ==
    {Site([y \in Years |-> "ok"], [e \in EventIds |-> ep],
          [f \in FightIds |-> GoodFight], GoodListing) :
        ep \in {UfcEvent, OtherEvent, NoCellEvent,
                EventPage("ok", "none", <<>>, TRUE, DateText("long", 10), <<1>>),
                EventPage("ok", "cell", <<"UFC 300", "Las Vegas, NV">>, FALSE, EmptyText, <<1>>)}}

\* no judge scraper has been constructed
JudgesOff ==
    /\ site = None
    /\ hashOrder = <<1, 2>>
    /\ JudgesIdle
    /\ asyncOut = None
    /\ syncOut = None

\* LiveESPNScraper.__init__
LiveInit ==
    /\ JudgesOff
    /\ OthersIdle("espn")
    /\ content = None
    /\ self_fight_info = EmptyInfo
    /\ before = EmptyInfo
    /\ returned = NotRun
    /\ polls = 0
    /\ self_fights = None

\* ESPNHistoricalScrapper.__init__, and the page the browser has loaded
HistoricalInit ==
    /\ JudgesOff
    /\ OthersIdle("espn")
    /\ content \in HistPages
    /\ self_fight_info = None
    /\ before = None
    /\ returned = None
    /\ polls = 0
    /\ self_fights = NotRun

\* the judge scrapers in front of one event page
AnchorInit ==
    /\ site \in AnchorSites
    /\ hashOrder = <<1, 2>>
    /\ JudgesIdle
    /\ asyncOut = NotRun
    /\ syncOut = NotRun
    /\ OthersIdle("judges")

ExtractInit == LiveInit \/ HistoricalInit \/ AnchorInit

\* one iteration of the loop of monitor_fight: page.content() and
\* get_live_fight_info; an exception ends the loop
Poll ==
    /\ self_fight_info # None
    /\ returned # Raised
    /\ polls < MaxPolls
    /\ \E page \in LivePages :
          LET result == GetLiveFightInfo(page, self_fight_info)
          IN /\ content' = page
             /\ before' = self_fight_info
             /\ self_fight_info' = result.info
             /\ returned' = IF result.raised THEN Raised ELSE result.info
    /\ polls' = polls + 1
    /\ OthersUnchanged("espn")
    /\ UNCHANGED <<judgeVars, self_fights>>

\* get_fight_info_from_fight_id on the loaded page
Extract ==
    /\ self_fights = NotRun
    /\ self_fights' = GetFightInfoFromFightId(content.segments, <<>>)
    /\ OthersUnchanged("espn")
    /\ UNCHANGED <<judgeVars, content, self_fight_info, before, returned, polls>>

ExtractNext == Poll \/ Extract \/ MatchSync \/ MatchAsync

SpecExtract == ExtractInit /\ [][ExtractNext]_vars

-----------------------------------------------------------------------------
(* Claims on the extractors *)

\* the last poll returned a record
PollReturned == returned \notin {None, NotRun, Raised}
\* the historical extraction has run
Extracted == self_fights \notin {None, NotRun}

\* C6: when an anchor element is absent (the fighter-name spans of an ESPN
\* fight segment, the fight segment of a live page, the event-name cell of
\* an MMA Decisions event page) the extraction does not raise: the live
\* poll returns a record, the historical extraction goes through every
\* segment of the page, and parse_event of both judge scrapers returns.
C6_AbsentAnchorNoRaise ==
    /\ returned # Raised
    /\ Extracted => ~self_fights.raised
    /\ syncOut # Raised
    /\ asyncOut # Raised

\* C7: the record get_live_fight_info returns for a page is the record a
\* fresh LiveESPNScraper returns for that page, whatever was polled before.
C7_DeterminedByPage ==
    PollReturned => returned = GetLiveFightInfo(content, EmptyInfo).info

\* the labelled matchup rows of a segment as fighter i's stats: every row
\* with two values and a label, the last one of a label
IsStatRow(row) == Len(row.values) = 2 /\ row.labels # <<>>
ExpectedStats(rows, i) ==
    {<<rows[j].labels[1], rows[j].values[i]>> :
        j \in {j \in 1..Len(rows) :
                 /\ IsStatRow(rows[j])
                 /\ \A k \in (j + 1)..Len(rows) :
                       ~(IsStatRow(rows[k]) /\ rows[k].labels[1] = rows[j].labels[1])}}

\* C8: after get_live_fight_info(html) has returned, the stats of each
\* fighter are exactly the labelled matchup rows of html: nothing of an
\* earlier poll is carried over.
C8_StatsOverwritten ==
    PollReturned =>
        /\ returned.fighter1.stats = ExpectedStats(content.segments[1].rows, 1)
        /\ returned.fighter2.stats = ExpectedStats(content.segments[1].rows, 2)

\* a second poll of the same fighters returned, and a stat of the first
\* poll is not on the second page
C8_Witness ==
    /\ polls = 2
    /\ PollReturned
    /\ before.fighter1 # Absent
    /\ before.fighter1.name = returned.fighter1.name
    /\ \E p \in before.fighter1.stats : p \notin returned.fighter1.stats

\* the timestamp of a record whose round is "R<n>" and whose time is "M:SS"
RoundClock(info) ==
    (info.round \notin {None, Absent} /\ info.time \notin {None, Absent}) =>
        info.timestamp =
            IntVal((DigitsValue(info.round.digits) - 1) * 300 + info.time.m * 60 + info.time.s)

\* C9: every record of get_final_score and of get_curr_score with round
\* "R<n>" and time "M:SS" has timestamp (n - 1) * 300 + M * 60 + SS, for
\* every n >= 1.
C9_RoundClock ==
    /\ PollReturned => RoundClock(returned)
    /\ Extracted => \A i \in 1..Len(self_fights.fights) : RoundClock(self_fights.fights[i])

-----------------------------------------------------------------------------
(* american_to_decimal.  The argument is a number or a text; a decimal     *)
(* price is the exact fraction [num, den] in lowest terms (the code        *)
(* computes it in floating point).                                         *)

MaxOdds == 300       \* American odds range over -MaxOdds..MaxOdds

NumArg(value) == [kind |-> "num", value |-> value]
\* the text sign digits, e.g. "-150", "+120", "150"
TextArg(sign, digits) == [kind |-> "text", sign |-> sign, digits |-> digits]
NanArg == [kind |-> "nan"]           \* the text "nan"
JunkArg == [kind |-> "junk"]         \* "abc", "", None
OddsArgs ==
    {NumArg(v) : v \in -MaxOdds..MaxOdds}
    \cup {TextArg(sg, d) : sg \in {"", "+", "-"}, d \in 0..MaxOdds}
    \cup {NanArg, JunkArg}

NaN == [nan |-> TRUE]
Num(value) == [num |-> value]

\* float(odds): the number, NaN, or an exception
FloatOf(arg) ==
    CASE arg.kind = "num" -> Num(arg.value)
      [] arg.kind = "text" -> Num(IF arg.sign = "-" THEN 0 - arg.digits ELSE arg.digits)
      [] arg.kind = "nan" -> NaN
      [] OTHER -> Raised

RECURSIVE Gcd(_, _)
Gcd(a, b) == IF b = 0 THEN a ELSE Gcd(b, a % b)
\* the fraction n / d, d > 0, in lowest terms
Frac(n, d) == LET g == Gcd(Abs(n), d) IN [num |-> n \div g, den |-> d \div g]
FracAdd(a, b) == Frac(a.num * b.den + b.num * a.den, a.den * b.den)

WithoutStake(x) == Frac(x, 100)
\* (odds / 100) + 1
PositiveDecimal(x) == FracAdd(Frac(x, 100), Frac(1, 1))
SignDropped(x) == FracAdd(Frac(Abs(x), 100), Frac(1, 1))
\* (100 / abs(odds)) + 1
NegativeDecimal(x) == FracAdd(Frac(100, Abs(x)), Frac(1, 1))

american_to_decimal(arg) ==
    LET f == FloatOf(arg)
    IN IF f = Raised THEN None
       ELSE IF f # NaN /\ f.num > 0 THEN PositiveDecimal(f.num)
       ELSE IF f # NaN /\ f.num < 0 THEN NegativeDecimal(f.num)
       ELSE Frac(1, 1)

OddsInit ==
    /\ JudgesOff
    /\ OthersIdle("odds")
    /\ odds_arg \in OddsArgs
    /\ dec_odds = NotRun

\* dec_odds = american_to_decimal(val)
Convert ==
    /\ dec_odds = NotRun
    /\ dec_odds' = american_to_decimal(odds_arg)
    /\ OthersUnchanged("odds")
    /\ UNCHANGED <<judgeVars, odds_arg>>

OddsNext == Convert

SpecOdds == OddsInit /\ [][OddsNext]_vars

\* the argument denotes the number x
Denotes(arg, x) ==
    \/ arg.kind = "num" /\ arg.value = x
    \/ arg.kind = "text" /\ x = (IF arg.sign = "-" THEN 0 - arg.digits ELSE arg.digits)
Parseable(arg) == arg.kind \in {"num", "text", "nan"}
Converted == dec_odds \notin {None, NotRun}
\* dec_odds is the fraction n / d
IsFraction(n, d) == Converted /\ dec_odds.num * d = n * dec_odds.den

\* the result for x > 0 is x/100 + 1, the result for x < 0 is 100/|x| + 1
NonZeroOdds ==
    \A x \in -MaxOdds..MaxOdds :
        Denotes(odds_arg, x) =>
            /\ x > 0 => IsFraction(x + 100, 100)
            /\ x < 0 => IsFraction(100 + Abs(x), Abs(x))

\* C10 as stated: x/100 + 1 for positive x, 100/|x| + 1 for negative x, and
\* None when x is zero or cannot be parsed as a number.
C10_NoneForZero ==
    dec_odds # NotRun =>
        /\ NonZeroOdds
        /\ (Denotes(odds_arg, 0) \/ ~Parseable(odds_arg)) => dec_odds = None

\* C10 as the code has it: x/100 + 1 for positive x, 100/|x| + 1 for
\* negative x, the price 1.0 when x is zero or NaN, and None exactly when
\* float(x) raises.
C10_OneForZero ==
    dec_odds # NotRun =>
        /\ NonZeroOdds
        /\ (Denotes(odds_arg, 0) \/ odds_arg = NanArg) => dec_odds = Frac(1, 1)
        /\ dec_odds = None <=> ~Parseable(odds_arg)

\* zero odds have been converted
C10_Witness == Denotes(odds_arg, 0) /\ dec_odds = Frac(1, 1)


\* American odds as bookmakers quote them: +100 and above, or below -100
Canonical(x) == x >= 100 \/ x < -100
OddsRange == (-MaxOdds..MaxOdds) \ {0}
\* no other odds of the set S have the price dec_odds
OnlyPreimageIn(S, x) ==
    \A y \in S \ {x} : american_to_decimal(NumArg(y)) # dec_odds

\* C11 as stated: american_to_decimal maps no two distinct nonzero American
\* odds to the same decimal price (so that an inverse can bring every
\* nonzero x back), odds with |x| <= 100 included.
C11_InjectiveNonZero ==
    \A x \in OddsRange :
        (dec_odds # NotRun /\ Denotes(odds_arg, x)) => OnlyPreimageIn(OddsRange, x)

\* C11 on the canonical odds: american_to_decimal maps no two distinct odds
\* among x >= 100 and x < -100 to the same decimal price.
C11_InjectiveCanonical ==
    \A x \in {y \in OddsRange : Canonical(y)} :
        (dec_odds # NotRun /\ Denotes(odds_arg, x)) =>
            OnlyPreimageIn({y \in OddsRange : Canonical(y)}, x)

\* -260 has been converted (to 18/13)
C11_Witness == Denotes(odds_arg, -260) /\ dec_odds = [num |-> 18, den |-> 13]

-----------------------------------------------------------------------------
(* The odds-API programs: live_odds.py (LiveOddsListener), the script      *)
(* pull_references.py and the script pull_closing.py.  Each reads          *)
(* ODDS_API_KEY from the environment, sends requests to the odds API and   *)
(* writes records to its output file.                                      *)

MaxLivePolls == 3      \* iterations of the loop of LiveOddsListener.run
MaxApiInputs == 2      \* events of the input of pull_references / pull_closing

Entries == {"live_odds", "pull_references", "pull_closing"}

\* what the API answers to a request: a JSON body, a 4xx/5xx status, a
\* transport error, or a 2xx answer whose body is not JSON
Answer(kind, body) == [kind |-> kind, body |-> body]
Answers(key) ==
    {Answer("http_error", ""), Answer("net_error", "")}
    \cup (IF key THEN {Answer("ok", "odds_a"), Answer("ok", "odds_b"), Answer("bad_json", "")}
          ELSE {})

EmptyDict == [dict |-> {}]

\* try: requests.get; raise_for_status; return response.json()
\* except requests.exceptions.RequestException: return on_error.
\* What response.json() raises on a body that is not JSON is a
\* RequestException in requests >= 2.27 and a plain ValueError before.
FetchOutcomes(answer, on_error) ==
    CASE answer.kind = "ok" -> {StrVal(answer.body)}
      [] answer.kind = "bad_json" -> {on_error, Raised}
      [] OTHER -> {on_error}

Truncated(file) == <<>>
\* open(path, "a"): what is in the file stays
OpenAppend(file) == file
\* open(path, "w").close(): the file is emptied
OpenWrite(file) == <<>>

\* an event of the input: its id, and whether it has a "date"
InputEvent(id, hasDate) == [id |-> id, hasDate |-> hasDate]
InputLists ==
    UNION {[1..n -> {InputEvent(id, d) : id \in {"e1", "e2"}, d \in BOOLEAN}] :
              n \in 0..MaxApiInputs}
\* what the output file holds before the run
OldFiles == {<<>>, << [old |-> TRUE] >>}

ApiInit ==
    /\ JudgesOff
    /\ OthersIdle("api")
    /\ api_key \in BOOLEAN
    /\ entry \in Entries
    /\ api_pc = "start"
    /\ requests_sent = 0
    /\ out_file \in OldFiles
    /\ inputs \in IF entry = "live_odds" THEN {<<>>} ELSE InputLists
    /\ last_response = NotRun
    /\ clock = 0

\* whether the program checks the key when it starts: LiveOddsListener in
\* __init__, pull_references at import; pull_closing only reads it
ChecksKey(e) == e \in {"live_odds", "pull_references"}

\* start of the program up to its first request
ApiStart ==
    /\ api_pc = "start"
    /\ IF ChecksKey(entry) /\ ~api_key
       THEN api_pc' = "failed" /\ UNCHANGED out_file
       ELSE CASE entry = "live_odds" ->
                    api_pc' = "running" /\ UNCHANGED out_file
              [] entry = "pull_references" ->
                    /\ api_pc' = IF inputs = <<>> THEN "done" ELSE "running"
                    /\ out_file' = (IF inputs = <<>> THEN out_file ELSE OpenAppend(out_file))
              [] OTHER ->
                    /\ api_pc' = IF inputs = <<>> THEN "done" ELSE "running"
                    /\ out_file' = OpenWrite(out_file)
    /\ OthersUnchanged("api")
    /\ UNCHANGED <<judgeVars, api_key, entry, requests_sent, inputs, last_response, clock>>

\* one iteration of the loop of LiveOddsListener.run
LivePoll ==
    /\ entry = "live_odds"
    /\ api_pc = "running"
    /\ clock < MaxLivePolls
    /\ \E answer \in Answers(api_key) : \E odds_data \in FetchOutcomes(answer, None) :
          /\ last_response' = odds_data
          /\ api_pc' = IF odds_data = Raised THEN "failed" ELSE "running"
          /\ out_file' = IF odds_data \in {None, Raised} THEN out_file
                         ELSE Append(OpenAppend(out_file),
                                     [timestamp |-> clock, live_odds |-> odds_data])
    /\ requests_sent' = requests_sent + 1
    /\ clock' = clock + 1
    /\ OthersUnchanged("api")
    /\ UNCHANGED <<judgeVars, api_key, entry, inputs>>

\* pull_references.main: one event of the loop
ReferenceStep ==
    /\ entry = "pull_references"
    /\ api_pc = "running"
    /\ \E answer \in Answers(api_key) : \E api_data \in FetchOutcomes(answer, None) :
          /\ last_response' = api_data
          /\ IF api_data = Raised
             THEN api_pc' = "failed" /\ UNCHANGED <<out_file, inputs>>
             ELSE /\ out_file' = Append(out_file, [event_id |-> Head(inputs).id,
                                                   response |-> api_data])
                  /\ inputs' = Tail(inputs)
                  /\ api_pc' = IF Tail(inputs) = <<>> THEN "done" ELSE "running"
    /\ requests_sent' = requests_sent + 1
    /\ clock' = clock + 1
    /\ OthersUnchanged("api")
    /\ UNCHANGED <<judgeVars, api_key, entry>>

\* pull_closing.process_file: one event of the loop; date + "Z" raises
\* TypeError for an event without "date", before the request
ClosingStep ==
    /\ entry = "pull_closing"
    /\ api_pc = "running"
    /\ IF ~Head(inputs).hasDate
       THEN /\ api_pc' = "failed"
            /\ last_response' = Raised
            /\ UNCHANGED <<out_file, inputs, requests_sent>>
       ELSE /\ \E answer \in Answers(api_key) : \E processed \in FetchOutcomes(answer, EmptyDict) :
                  /\ last_response' = processed
                  /\ IF processed = Raised
                     THEN api_pc' = "failed" /\ UNCHANGED <<out_file, inputs>>
                     ELSE /\ out_file' = Append(OpenAppend(out_file), processed)
                          /\ inputs' = Tail(inputs)
                          /\ api_pc' = IF Tail(inputs) = <<>> THEN "done" ELSE "running"
            /\ requests_sent' = requests_sent + 1
    /\ clock' = clock + 1
    /\ OthersUnchanged("api")
    /\ UNCHANGED <<judgeVars, api_key, entry>>

ApiNext == ApiStart \/ LivePoll \/ ReferenceStep \/ ClosingStep

SpecApi == ApiInit /\ [][ApiNext]_vars

\* C12: without ODDS_API_KEY every odds-API program fails when it starts,
\* before any request is sent to the odds API.
C12_FatalWithoutKey ==
    api_key = FALSE => (requests_sent = 0 /\ api_pc \in {"start", "failed"})

IsPrefix(a, b) == Len(a) <= Len(b) /\ SubSeq(b, 1, Len(a)) = a

\* C15: LiveOddsListener.run only appends to its output file: a successful
\* poll adds exactly one {timestamp, live_odds} record at the end, a poll
\* whose fetch returned None leaves the file as it is and the loop goes on,
\* and no record written before is changed or removed.
C15_AppendOnly ==
    [][entry = "live_odds" =>
         /\ IsPrefix(out_file, out_file')
         /\ (clock' = clock + 1 /\ last_response' \notin {None, Raised}) =>
               /\ Len(out_file') = Len(out_file) + 1
               /\ out_file'[Len(out_file')].live_odds = last_response'
         /\ (clock' = clock + 1 /\ last_response' = None) =>
               (out_file' = out_file /\ api_pc' = "running")]_vars

\* a record was in the file before the run, a poll has added one, and the
\* poll after it has failed
C15_Witness ==
    /\ entry = "live_odds"
    /\ Len(out_file) = 2
    /\ out_file[1] = [old |-> TRUE]
    /\ last_response = None
    /\ clock >= 2

-----------------------------------------------------------------------------
(* ESPNHistoricalScrapper.get_historical_fight_info: the year listings     *)
(* are visited to collect the fight URLs, then every fight page is         *)
(* visited and extracted.  page.goto raises on a navigation timeout.       *)

NumCrawlYears == 2     \* start_year..end_year - 1; year y lists fight page y

CrawlYears == 1..NumCrawlYears

\* a year listing: the outcome of page.goto, and of the wait for the
\* dropdown ("none": the dropdown is there, the select element is not)
YearListing(nav, dropdown) == [nav |-> nav, dropdown |-> dropdown]
YearListings ==
    {YearListing("timeout", "ok"), YearListing("ok", "ok"),
     YearListing("ok", "timeout"), YearListing("ok", "none")}

GoodPage == Page(<<GoodSegment>>)
NoNamesPage == Page(<<Segment(<<>>, <<>>, <<>>, <<>>, <<>>)>>)
CrawlFightPage(nav, page) == [nav |-> nav, page |-> page]
CrawlFightPages ==
    {CrawlFightPage("timeout", GoodPage), CrawlFightPage("ok", GoodPage),
     CrawlFightPage("ok", NoNamesPage)}

CrawlSites ==
    {[year |-> yp, fight |-> fp] :
        yp \in [CrawlYears -> YearListings], fp \in [CrawlYears -> CrawlFightPages]}

\* ESPNHistoricalScrapper.__init__ and the start of get_historical_fight_info
CrawlInit ==
    /\ JudgesOff
    /\ OthersIdle("crawl")
    /\ crawl_site \in CrawlSites
    /\ crawl_pc = "urls"
    /\ crawl_year = 1
    /\ fight_urls = <<>>
    /\ crawl_idx = 1
    /\ visited = <<>>
    /\ crawl_fights = <<>>

\* year_fight_urls of a listing whose dropdown was read
YearFightUrls(listing, year) == IF listing.dropdown = "ok" THEN <<year>> ELSE <<>>

\* get_fight_urls: one year of the loop; page.goto is outside the try
CrawlListYear ==
    /\ crawl_pc = "urls"
    /\ visited' = Append(visited, <<"year", crawl_year>>)
    /\ IF crawl_site.year[crawl_year].nav = "timeout"
       THEN /\ crawl_pc' = "failed"
            /\ UNCHANGED <<crawl_year, fight_urls>>
       ELSE /\ fight_urls' = fight_urls \o YearFightUrls(crawl_site.year[crawl_year], crawl_year)
            /\ crawl_year' = crawl_year + 1
            /\ crawl_pc' = IF crawl_year = NumCrawlYears THEN "fights" ELSE "urls"
    /\ OthersUnchanged("crawl")
    /\ UNCHANGED <<judgeVars, crawl_site, crawl_idx, crawl_fights>>

\* run_process on the next fight URL
CrawlFight ==
    /\ crawl_pc = "fights"
    /\ crawl_idx <= Len(fight_urls)
    /\ visited' = Append(visited, <<"fight", fight_urls[crawl_idx]>>)
    /\ LET fight_page == crawl_site.fight[fight_urls[crawl_idx]]
           result == GetFightInfoFromFightId(fight_page.page.segments, crawl_fights)
       IN IF fight_page.nav = "timeout"
          THEN /\ crawl_pc' = "failed"
               /\ UNCHANGED <<crawl_idx, crawl_fights>>
          ELSE /\ crawl_fights' = result.fights
               /\ crawl_pc' = IF result.raised THEN "failed" ELSE "fights"
               /\ crawl_idx' = IF result.raised THEN crawl_idx ELSE crawl_idx + 1
    /\ OthersUnchanged("crawl")
    /\ UNCHANGED <<judgeVars, crawl_site, crawl_year, fight_urls>>

\* the loop over fight_urls is over: browser.close()
CrawlClose ==
    /\ crawl_pc = "fights"
    /\ crawl_idx > Len(fight_urls)
    /\ crawl_pc' = "done"
    /\ OthersUnchanged("crawl")
    /\ UNCHANGED <<judgeVars, crawl_site, crawl_year, fight_urls, crawl_idx, visited,
                   crawl_fights>>

CrawlNext == CrawlListYear \/ CrawlFight \/ CrawlClose

SpecCrawl == CrawlInit /\ [][CrawlNext]_vars

Visits(p) == Cardinality({i \in 1..Len(visited) : visited[i] = p})
CrawlEnded == crawl_pc \in {"done", "failed"}
\* the fight pages the listings that load give
ListedFights ==
    {y \in CrawlYears : crawl_site.year[y].nav = "ok" /\ crawl_site.year[y].dropdown = "ok"}
\* every fight page that loads has its anchors
OnlyTimeouts == \A y \in CrawlYears : crawl_site.fight[y].page = GoodPage

\* C13: a navigation timeout on a year listing or on a fight page only
\* skips that page: the run ends normally, every year listing and every
\* listed fight page has been visited exactly once, and every fight page
\* that loads has its record in self.fights.
C13_TimeoutSkipsPage ==
    (CrawlEnded /\ OnlyTimeouts) =>
        /\ crawl_pc = "done"
        /\ \A y \in CrawlYears : Visits(<<"year", y>>) = 1
        /\ \A f \in ListedFights : Visits(<<"fight", f>>) = 1
        /\ Len(crawl_fights) =
              Cardinality({f \in ListedFights : crawl_site.fight[f].nav = "ok"})

-----------------------------------------------------------------------------
(* pre_2020_closing.main: the events of the UFCStats listing are processed *)
(* latest first; an event with odds goes to pre_odds.json, an event        *)
(* without them is written to exceptions.txt.                              *)

MaxPreEvents == 2      \* rows of the completed-events listing

\* an event page as process_event sees it: the outcome of the first fetch
\* (parse_event_page), whether the date of the info box parses, whether a
\* fight has bookmakers, and the outcome of the second fetch
PrePage(fetch, hasDate, hasOdds, refetch) ==
    [fetch |-> fetch, hasDate |-> hasDate, hasOdds |-> hasOdds, refetch |-> refetch]
PrePages ==
    {PrePage("ok", TRUE, TRUE, "ok"), PrePage("ok", TRUE, FALSE, "ok"),
     PrePage("ok", FALSE, TRUE, "ok"), PrePage("http_error", FALSE, FALSE, "ok"),
     PrePage("net_error", FALSE, FALSE, "ok"), PrePage("ok", TRUE, TRUE, "http_error"),
     PrePage("ok", TRUE, TRUE, "net_error")}

\* a row of the listing: date_dt is the day, or -1 when strptime failed
PreRow(url, date_dt, page) == [url |-> url, date_dt |-> date_dt, page |-> page]
PreListings ==
    {UfcListing(f, <<>>) : f \in {"http_error", "net_error"}}
    \cup UNION {{UfcListing("ok", [i \in 1..n |-> PreRow(i, r[i][1], r[i][2])]) :
                    r \in [1..n -> {-1, 1, 2} \X PrePages]} : n \in 0..MaxPreEvents}

\* get_all_event_links
GetAllEventLinks(listing) ==
    CASE listing.fetch = "net_error" -> Raised
      [] listing.fetch = "http_error" -> List(<<>>)
      [] OTHER -> List(listing.rows)

\* [e for e in events if e["date_dt"] is not None]
RECURSIVE EventsValid(_)
EventsValid(events) ==
    IF events = <<>> THEN <<>>
    ELSE IF Head(events).date_dt = -1 THEN EventsValid(Tail(events))
         ELSE <<Head(events)>> \o EventsValid(Tail(events))

\* sorted(..., key=date_dt, reverse=True): stable, latest first
RECURSIVE InsertByDate(_, _)
InsertByDate(sorted, e) ==
    IF sorted = <<>> THEN <<e>>
    ELSE IF Head(sorted).date_dt >= e.date_dt
         THEN <<Head(sorted)>> \o InsertByDate(Tail(sorted), e)
         ELSE <<e>> \o sorted
RECURSIVE EventsSorted(_)
EventsSorted(events) ==
    IF events = <<>> THEN <<>>
    ELSE InsertByDate(EventsSorted(SubSeq(events, 1, Len(events) - 1)), events[Len(events)])

\* process_event: the final JSON, None, or an exception of requests.get;
\* the status of the second fetch is not looked at, its page gives the
\* name and the date of the record
ProcessEvent(event) ==
    LET page == event.page
    IN CASE page.fetch = "net_error" -> Raised
         [] page.fetch = "http_error" \/ ~page.hasDate -> None
         [] page.refetch = "net_error" -> Raised
         [] ~page.hasOdds -> None
         [] OTHER -> [event_id |-> event.url,
                      date |-> IF page.refetch = "ok" THEN StrVal("date") ELSE None,
                      data |-> <<"fight">>]

\* final_events.append(event_data)
AppendEvent(events, event_data) == Append(events, event_data)

PreInit ==
    /\ JudgesOff
    /\ OthersIdle("pre")
    /\ pre_listing \in PreListings
    /\ pre_pc = "start"
    /\ pre_todo = <<>>
    /\ final_events = <<>>
    /\ pre_odds_file = NotRun
    /\ exceptions_file = <<>>

\* main up to the loop
PreStart ==
    /\ pre_pc = "start"
    /\ LET events == GetAllEventLinks(pre_listing)
       IN IF events = Raised
          THEN pre_pc' = "failed" /\ UNCHANGED pre_todo
          ELSE /\ pre_todo' = EventsSorted(EventsValid(events.list))
               /\ pre_pc' = IF EventsValid(events.list) = <<>> THEN "done" ELSE "loop"
    /\ OthersUnchanged("pre")
    /\ UNCHANGED <<judgeVars, pre_listing, final_events, pre_odds_file, exceptions_file>>

\* one event of the loop of main
PreStep ==
    /\ pre_pc = "loop"
    /\ LET event == Head(pre_todo)
           event_data == ProcessEvent(event)
       IN IF event_data = Raised
          THEN /\ pre_pc' = "failed"
               /\ UNCHANGED <<pre_todo, final_events, pre_odds_file, exceptions_file>>
          ELSE /\ IF event_data = None
                  THEN /\ exceptions_file' = Append(exceptions_file, event.url)
                       /\ final_events' = final_events
                  ELSE /\ final_events' = AppendEvent(final_events, event_data)
                       /\ UNCHANGED exceptions_file
               /\ pre_odds_file' = List(final_events')
               /\ pre_todo' = Tail(pre_todo)
               /\ pre_pc' = IF Tail(pre_todo) = <<>> THEN "done" ELSE "loop"
    /\ OthersUnchanged("pre")
    /\ UNCHANGED <<judgeVars, pre_listing>>

PreNext == PreStart \/ PreStep

SpecPre == PreInit /\ [][PreNext]_vars

PreEnded == pre_pc \in {"done", "failed"}
InPreOdds(url) ==
    pre_odds_file # NotRun /\ \E i \in 1..Len(pre_odds_file.list) : pre_odds_file.list[i].event_id = url
InExceptions(url) == \E i \in 1..Len(exceptions_file) : exceptions_file[i] = url

\* C14: when main ends, every event of the listing is either in
\* pre_odds.json or in exceptions.txt, not both and not neither, and the
\* run has not been stopped by an event.
C14_EveryEventAccounted ==
    (PreEnded /\ pre_listing.fetch = "ok") =>
        /\ pre_pc = "done"
        /\ \A i \in 1..Len(pre_listing.rows) :
              InPreOdds(pre_listing.rows[i].url) # InExceptions(pre_listing.rows[i].url)

-----------------------------------------------------------------------------
(* MMAdecisionsScraper: one front for the two judge scrapers.              *)

ScraperModes == {"sync", "async"}

\* AsyncJudgeScraper.run_all: the events are dumped to a file and the
\* coroutine ends without a return statement
RunAll(events) == None

\* len(events) of the print statement
LenOf(events) == IF events = None \/ events = Raised THEN Raised ELSE IntVal(Len(events.list))

\* MMAdecisionsScraper.get_events_range, given what the scraper of the
\* mode has parsed
GetEventsRange(mode, parsed) ==
    LET events == IF mode = "sync" THEN parsed ELSE RunAll(parsed)
    IN IF LenOf(events) = Raised THEN Raised ELSE events

ParsedBy(mode) == IF mode = "sync" THEN syncOut ELSE asyncOut

\* C16: in either mode get_events_range returns the list of event
\* dictionaries that the scraper of that mode has parsed.
C16_ReturnsParsedEvents ==
    \A mode \in ScraperModes :
        (ParsedBy(mode) # NotRun /\ ParsedBy(mode) # Raised) =>
            GetEventsRange(mode, ParsedBy(mode)) = ParsedBy(mode)

-----------------------------------------------------------------------------
(* Claims about the gate before the UFCStats matcher *)

\* the names of the model's pages that do not hold the text 'UFC'
OtherNames == {"Bellator 1", ""}
EventName(e) == GetName(EventInfo(site.event[e]))
OtherNamed(e) == site.event[e].fetch = "ok" /\ EventName(e) \in OtherNames
RecordsOf(out) ==
    IF out = NotRun \/ out = Raised \/ out = None THEN {} ELSE SeqRange(out.list)
NoIdOnOthers(out) ==
    \A r \in RecordsOf(out) :
        GetName(r.event_details) \in OtherNames => "event_id" \notin DOMAIN r

\* C17: an event whose name does not contain 'UFC' never makes parse_event
\* fetch the UFCStats listing (the async task never waits for it, the sync
\* run is not hit by the listing's transport error), and its record
\* carries no event_id.
C17_OnlyUfcMatched ==
    /\ \A e \in EventIds :
          OtherNamed(e) =>
             /\ pc[Ev(e)] \notin {"ufc_fetch", "ufc_fetching"}
             /\ "event_id" \notin DOMAIN ret[Ev(e)]
    /\ NoIdOnOthers(asyncOut)
    /\ NoIdOnOthers(syncOut)
    /\ (/\ syncOut # NotRun
        /\ site.ufc.fetch = "net_error"
        /\ \A e \in EventIds : OtherNamed(e) /\ site.event[e].top = "cell")
       => syncOut # Raised

\* both runs are over on a site of events of another promotion whose
\* UFCStats listing cannot be fetched, and both return the events
C17_Witness ==
    /\ site.ufc.fetch = "net_error"
    /\ \A e \in EventIds : OtherNamed(e)
    /\ syncOut # NotRun /\ syncOut # Raised
    /\ Len(syncOut.list) = NumEvents /\ Len(asyncOut.list) = NumEvents
    /\ NoIdOnOthers(syncOut) /\ NoIdOnOthers(asyncOut)

-----------------------------------------------------------------------------
(* Claims about dates that do not parse *)

\* a date text that neither "%B %d, %Y" nor "%d/%m/%Y" parses
Unparseable(t) == t.fmt \notin {"long", "dmy"}
IsEventRecord(out) == "event_url" \in DOMAIN out
NeverBadCandidate(out) ==
    "event_id" \in DOMAIN out =>
        \A i \in 1..Len(MatchRows) :
            MatchRows[i].date.fmt # "long" => out.event_id # MatchRows[i].id
ReturnedWithoutId(out) == IsEventRecord(out) /\ "event_id" \notin DOMAIN out

\* C18: parse_event of either scraper never attaches the id of a UFCStats
\* candidate whose date does not parse, and for an event page whose own
\* date does not parse it returns the event record, without event_id,
\* instead of raising.
C18_BadDatesExcluded ==
    /\ syncOut # NotRun => NeverBadCandidate(syncOut)
    /\ asyncOut # NotRun => NeverBadCandidate(asyncOut)
    /\ Unparseable(MatchPage.date) =>
          /\ syncOut # NotRun => ReturnedWithoutId(syncOut)
          /\ asyncOut # NotRun => ReturnedWithoutId(asyncOut)

\* a UFC event whose date does not parse has been through both scrapers,
\* with a listing holding a candidate in the same city that does parse
C18_Witness ==
    /\ Unparseable(MatchPage.date)
    /\ MatchPage.parts[1] = "UFC 300"
    /\ \E i \in 1..Len(MatchRows) :
          MatchRows[i].date.fmt = "long" /\ MatchRows[i].location = "Las Vegas, Nevada, USA"
    /\ \E i \in 1..Len(MatchRows) : MatchRows[i].date.fmt # "long"
    /\ asyncOut # NotRun
    /\ ReturnedWithoutId(syncOut) /\ ReturnedWithoutId(asyncOut)

-----------------------------------------------------------------------------
(* parse_fight on judge tables whose round rows vary *)

MaxRounds == 3     \* round rows of a judge table

\* the score cells of a round row: two scores, one or both replaced by
\* '-', a text int() rejects, or a row cut short
ScoreCells ==
    {<<"10", "9">>, <<"9", "10">>, <<"-", "-">>, <<"10", "-">>, <<"-", "9">>,
     <<"10", "n/a">>, <<"10">>}
RoundTables ==
    UNION {{[hasJudge |-> TRUE, judge |-> "D. Cleary",
             rows |-> [i \in 1..n |-> <<ToString(i)>> \o c[i]],
             hasTotal |-> TRUE, total |-> <<"Total", "30", "27">>] :
               c \in [1..n -> ScoreCells]} : n \in 0..MaxRounds}
ScorePages ==
    {FightPage("ok", <<"Fighter A", "Fighter B">>,
               <<t, JudgeTable("S. Bell"), JudgeTable("J. Lee")>>) : t \in RoundTables}

RoundsInit ==
    /\ JudgesOff
    /\ OthersIdle("rounds")
    /\ score_page \in ScorePages
    /\ parsed_fight = NotRun

\* parse_fight of either scraper once the page is there
ParseFight ==
    /\ parsed_fight = NotRun
    /\ parsed_fight' = ParseFightHtml(1, score_page)
    /\ OthersUnchanged("rounds")
    /\ UNCHANGED <<judgeVars, score_page>>

RoundsNext == ParseFight

SpecRounds == RoundsInit /\ [][RoundsNext]_vars

\* the texts of the model that are integers, with their values
ScoreValue == ("10" :> 10) @@ ("9" :> 9)
ScoreRows == score_page.tables[1].rows
HasTwoScores(cells) ==
    Len(cells) >= 3 /\ cells[2] \in DOMAIN ScoreValue /\ cells[3] \in DOMAIN ScoreValue
RECURSIVE RowsWithTwoScores(_)
RowsWithTwoScores(rows) ==
    IF rows = <<>> THEN <<>>
    ELSE IF HasTwoScores(Head(rows))
         THEN <<[round |-> Head(rows)[1], fighter1 |-> ScoreValue[Head(rows)[2]],
                 fighter2 |-> ScoreValue[Head(rows)[3]]]>> \o RowsWithTwoScores(Tail(rows))
         ELSE RowsWithTwoScores(Tail(rows))
ParsedRounds == parsed_fight.judges[1].rounds

\* C19: the rounds list of a judge is made of exactly the rows of the
\* table with two integer scores, in the order of the page; a row with a
\* '-' score is left out and no round is recorded with a score of zero.
C19_DashRowsLeftOut ==
    parsed_fight # NotRun =>
       /\ ParsedRounds = RowsWithTwoScores(ScoreRows)
       /\ \A i \in 1..Len(ParsedRounds) :
             ParsedRounds[i].fighter1 # 0 /\ ParsedRounds[i].fighter2 # 0

\* a table whose second row has one '-' score, between two scored rows
C19_Witness ==
    /\ parsed_fight # NotRun
    /\ Len(ScoreRows) = 3
    /\ ScoreRows[2] = <<"2", "10", "-">>
    /\ Len(ParsedRounds) = 2
    /\ ParsedRounds[1].round = "1" /\ ParsedRounds[2].round = "3"

-----------------------------------------------------------------------------
(* Claims about the result text of a live fight *)

\* the text of the result cell at the last poll, and what the poll made
\* of it
LivePolled ==
    /\ PollReturned
    /\ content.segments # <<>>
    /\ content.segments[1].live # <<>>
PolledText == content.segments[1].live[1].text
PolledResult == <<returned.method, returned.round, returned.time>>

NoResult == <<None, None, None>>
WrittenTags == {"PRE-FIGHT", "WALKOUTS", "INTROS"}
RoundAndTime(text) ==
    <<None, RoundStr(text.digits), IF text.hasTime THEN TimeStr(text.m, text.s) ELSE None>>

\* the four cases as the sentence has them
ListedShapes(text) ==
    CASE text.shape = "live" /\ ~text.end -> RoundAndTime(text)
      [] text.shape = "live" /\ text.end /\ ~text.hasTime -> RoundAndTime(text)
      [] text.shape = "tag" /\ text.tag \in WrittenTags -> <<StrVal(text.tag), None, None>>
      [] OTHER -> NoResult

InCapitals(tag) == IF tag = "Pre-Fight" THEN "PRE-FIGHT" ELSE tag
AcceptedMethods == {"KO/TKO", "S Dec", "U Dec", "Sub", "No Contest"}
AllShapes(text) ==
    CASE text.shape = "live" -> RoundAndTime(text)
      [] text.shape = "tag" /\ InCapitals(text.tag) \in WrittenTags ->
            <<StrVal(InCapitals(text.tag)), None, None>>
      [] text.shape = "final" /\ text.method \in AcceptedMethods /\ ~text.gap ->
            <<StrVal(text.method), RoundStr(text.digits), TimeStr(text.m, text.s)>>
      [] OTHER -> NoResult

-----------------------------------------------------------------------------
(* Claims about the result text of a completed fight *)

\* the segments of the page whose record is in self.fights and whose
\* result cell holds a text
ParsedSegments ==
    {i \in 1..Len(self_fights.fights) : content.segments[i].post # <<>>}
FinalOf(i) == content.segments[i].post[1].text
ResultOf(i) ==
    <<self_fights.fights[i].method, self_fights.fights[i].round, self_fights.fights[i].time>>
CompletedForm(text) ==
    IF text.shape = "final" /\ text.method \in AcceptedMethods /\ ~text.gap
    THEN <<StrVal(text.method), RoundStr(text.digits), TimeStr(text.m, text.s)>>
    ELSE NoResult

-----------------------------------------------------------------------------
(* Claims about the record of a fight without a result *)

AllNone(info) ==
    info.method = None /\ info.round = None /\ info.time = None /\ info.timestamp = None
\* the live poll found no result cell, or a text of no form
LiveNotFound ==
    /\ PollReturned
    /\ content.segments # <<>>
    /\ \/ content.segments[1].live = <<>>
       \/ AllShapes(content.segments[1].live[1].text) = NoResult
\* the same for segment i of the extracted page
FinalNotFound(i) ==
    \/ content.segments[i].post = <<>>
    \/ CompletedForm(content.segments[i].post[1].text) = NoResult

\* C22: when the result is not found or does not match, method, round,
\* time and timestamp of the record are all None after get_curr_score
\* (live poll) and after get_final_score (historical segment): the
\* timestamp is there and None, not missing and not left from before.
C22_TimestampNone ==
    /\ LiveNotFound => AllNone(returned)
    /\ Extracted =>
          \A i \in 1..Len(self_fights.fights) :
              FinalNotFound(i) => AllNone(self_fights.fights[i])

-----------------------------------------------------------------------------
(* scrape_round.process_stat_value.  A stat text is [shape, parts]:        *)
(*   "of":      parts joined by " of "     "clock":   parts joined by ":"  *)
(*   "percent": one part followed by "%"   "plain":   one part             *)
(*   "dashes":  the text "---"                                             *)
(* A part is IntVal(n), a text int() accepts, or StrVal(t), one it rejects. *)

MaxMinutes == 3      \* minutes of the clock texts

StatText(shape, parts) == [shape |-> shape, parts |-> parts]
IsIntPart(part) == "int" \in DOMAIN part
Junk == StrVal("x")
Blank == StrVal("")

ClockTexts ==
    {StatText("clock", <<IntVal(m), IntVal(sec)>>) : m \in 0..MaxMinutes, sec \in 0..59}
    \cup {StatText("clock", <<Junk, IntVal(30)>>),          \* "x:30"
          StatText("clock", <<IntVal(1), Junk>>),           \* "1:x"
          StatText("clock", <<Blank, Blank>>),              \* ":"
          StatText("clock", <<IntVal(1), IntVal(2), IntVal(3)>>)}   \* "1:2:3"
StatTexts ==
    ClockTexts
    \cup {StatText("of", <<IntVal(3), IntVal(7)>>), StatText("of", <<Junk, IntVal(7)>>),
          StatText("percent", <<IntVal(42)>>), StatText("percent", <<Junk>>),
          StatText("plain", <<IntVal(2)>>), StatText("plain", <<Junk>>),
          StatText("dashes", <<>>)}

\* the text is returned as it came
RawText(text) == [raw |-> text]

\* the branch `elif ':' in stat_value`: the unpacking of split(':') and
\* both int() calls are inside the try
ClockSeconds(text) ==
    IF Len(text.parts) = 2 /\ IsIntPart(text.parts[1]) /\ IsIntPart(text.parts[2])
    THEN IntVal(text.parts[1].int * 60 + text.parts[2].int)
    ELSE RawText(text)

process_stat_value(text) ==
    CASE text.shape = "dashes" -> IntVal(0)
      [] text.shape = "of" ->
            IF IsIntPart(text.parts[1]) /\ IsIntPart(text.parts[2])
            THEN [landed |-> text.parts[1], attempted |-> text.parts[2]]
            ELSE [landed |-> RawText(text.parts[1]), attempted |-> RawText(text.parts[2])]
      [] text.shape = "clock" -> ClockSeconds(text)
      [] text.shape = "percent" ->
            IF IsIntPart(text.parts[1]) THEN [float |-> text.parts[1].int] ELSE RawText(text)
      [] OTHER -> IF IsIntPart(text.parts[1]) THEN text.parts[1] ELSE RawText(text)

StatInit ==
    /\ JudgesOff
    /\ OthersIdle("stat")
    /\ stat_value \in StatTexts
    /\ stat_result = NotRun

ProcessStat ==
    /\ stat_result = NotRun
    /\ stat_result' = process_stat_value(stat_value)
    /\ OthersUnchanged("stat")
    /\ UNCHANGED <<judgeVars, stat_value>>

StatNext == ProcessStat

SpecStat == StatInit /\ [][StatNext]_vars

WellFormedClock(text) ==
    /\ text.shape = "clock" /\ Len(text.parts) = 2
    /\ IsIntPart(text.parts[1]) /\ IsIntPart(text.parts[2])

\* C23: a clock text "M:SS" is converted to M * 60 + SS seconds and a
\* malformed clock text to None; the text itself is never returned.
C23_ClockOrNone ==
    (stat_result # NotRun /\ stat_value.shape = "clock") =>
        IF WellFormedClock(stat_value)
        THEN stat_result = IntVal(stat_value.parts[1].int * 60 + stat_value.parts[2].int)
        ELSE stat_result = None

-----------------------------------------------------------------------------
(* The date conversions: convert_dob_to_ddmmyyyy (scrape_bio.py),          *)
(* format_date (scrape_event.py) and the date of parse_event.  fmt "abbr"  *)
(* is "%b %d, %Y".                                                         *)

MaxDay == 12         \* days of the date texts

DateFormats == {"long", "abbr", "dmy", "bad", "empty"}
DateStrings ==
    {DateText(f, d) : f \in DateFormats \ {"empty"}, d \in 1..MaxDay} \cup {EmptyText}

StrptimeAbbr(t) == IF t.fmt = "abbr" THEN t.day ELSE -1
\* strftime("%Y-%m-%d")
StrftimeIso(day) == DateText("iso", day)

\* convert_dob_to_ddmmyyyy: `if not dob_str: return None`, and the text
\* itself in the except branch
convert_dob_to_ddmmyyyy(dob_str) ==
    IF dob_str = EmptyText THEN None
    ELSE IF StrptimeAbbr(dob_str) >= 0 THEN StrftimeDmy(StrptimeAbbr(dob_str))
    ELSE dob_str

\* format_date
format_date(text) ==
    IF StrptimeLong(text) >= 0 THEN StrftimeIso(StrptimeLong(text)) ELSE text

\* event_info['date'] of parse_event for a page whose date cell holds the text
ParseEventDate(text) ==
    EventDate(EventPage("ok", "cell", <<"UFC 300">>, TRUE, text, <<>>))

Conversion(fn, value) == [fn |-> fn, value |-> value]

DateInit ==
    /\ JudgesOff
    /\ OthersIdle("date")
    /\ date_str \in DateStrings
    /\ date_result = NotRun

ConvertDob ==
    /\ date_result = NotRun
    /\ date_result' = Conversion("convert_dob_to_ddmmyyyy", convert_dob_to_ddmmyyyy(date_str))
    /\ OthersUnchanged("date")
    /\ UNCHANGED <<judgeVars, date_str>>

FormatDate ==
    /\ date_result = NotRun
    /\ date_result' = Conversion("format_date", format_date(date_str))
    /\ OthersUnchanged("date")
    /\ UNCHANGED <<judgeVars, date_str>>

ExtractEventDate ==
    /\ date_result = NotRun
    /\ date_result' = Conversion("parse_event", ParseEventDate(date_str))
    /\ OthersUnchanged("date")
    /\ UNCHANGED <<judgeVars, date_str>>

DateNext == ConvertDob \/ FormatDate \/ ExtractEventDate

SpecDate == DateInit /\ [][DateNext]_vars

\* the format each conversion reads
ReadFormat(fn) == IF fn = "convert_dob_to_ddmmyyyy" THEN "abbr" ELSE "long"

\* C24: for a date text that does not parse, convert_dob_to_ddmmyyyy,
\* format_date and the date extraction of parse_event each give None,
\* not the text they were given.
C24_UnparseableDateIsNone ==
    (date_result # NotRun /\ date_str.fmt # ReadFormat(date_result.fn)) =>
        date_result.value = None

-----------------------------------------------------------------------------
(* parse_event on event pages whose fight links repeat *)

MaxLinks == 4        \* cells with a fight link on the event page

LinkPages ==
    UNION {{EventPage("ok", "cell", <<"Bellator 1">>, TRUE, DateText("long", 10), links) :
               links \in [1..n -> FightIds]} : n \in 0..MaxLinks}
LinkSites ==
    {Site([y \in Years |-> "ok"], [e \in EventIds |-> page],
          [f \in FightIds |-> GoodFight], GoodListing) : page \in LinkPages}

LinksInit ==
    /\ OthersIdle("links")
    /\ JudgesOff
    /\ link_site \in LinkSites
    /\ link_order \in Permutations2
    /\ link_run = NotRun

\* SyncJudgeScraper.parse_event: one parse_fight, and so one requests.get,
\* per element of fight_links
LinksSync ==
    /\ link_run = NotRun
    /\ link_run' = [scraper |-> "sync",
                    fetched |-> FightLinks(link_site.event[1], link_order),
                    event_data |-> SyncParseEvent(link_site, link_order, 1)]
    /\ OthersUnchanged("links")
    /\ UNCHANGED <<judgeVars, link_site, link_order>>

\* AsyncJudgeScraper.parse_event: one task, and so one fetch_html, per
\* element of fight_links
LinksAsync ==
    /\ link_run = NotRun
    /\ link_run' = [scraper |-> "async",
                    fetched |-> FightLinks(link_site.event[1], link_order),
                    event_data |-> AsyncParseEvent(link_site, link_order, 1)]
    /\ OthersUnchanged("links")
    /\ UNCHANGED <<judgeVars, link_site, link_order>>

LinksNext == LinksSync \/ LinksAsync

SpecLinks == LinksInit /\ [][LinksNext]_vars

PageLinks == link_site.event[1].fights
NoRepeat(seq) == \A i, j \in 1..Len(seq) : i # j => seq[i] # seq[j]
RecordUrls(fights) == [i \in 1..Len(fights) |-> fights[i].fight_url]

\* C25: however often a fight link occurs on the event page, parse_event
\* of either scraper fetches each distinct fight URL once and the event
\* record holds at most one fight record per URL.
C25_LinksDeduplicated ==
    link_run # NotRun =>
       /\ NoRepeat(link_run.fetched)
       /\ SeqRange(link_run.fetched) = SeqRange(PageLinks)
       /\ NoRepeat(RecordUrls(link_run.event_data.fights))
       /\ SeqRange(RecordUrls(link_run.event_data.fights)) \subseteq SeqRange(PageLinks)

\* a page with the links 1, 2, 1, 1: two fetches and two fight records
C25_Witness ==
    /\ link_run # NotRun
    /\ PageLinks = <<1, 2, 1, 1>>
    /\ Len(link_run.fetched) = 2
    /\ Len(link_run.event_data.fights) = 2

-----------------------------------------------------------------------------
(* UFCStatsScraper.get_latest *)

MaxListed == 3       \* rows of the completed-events page
LastDay == 3         \* days of the rows and of the cutoff

LatestRows ==
    {[hasLink |-> TRUE, hasDate |-> TRUE, date |-> DateText("long", d)] : d \in 1..LastDay}
    \cup {[hasLink |-> TRUE, hasDate |-> TRUE, date |-> DateText("bad", 1)],
          [hasLink |-> FALSE, hasDate |-> TRUE, date |-> DateText("long", 2)],
          [hasLink |-> TRUE, hasDate |-> FALSE, date |-> EmptyText]}
CompletedPages ==
    {UfcListing(f, <<>>) : f \in {"http_error", "net_error"}}
    \cup UNION {{UfcListing("ok", [i \in 1..n |->
                        [hasLink |-> r[i].hasLink, hasDate |-> r[i].hasDate]
                            @@ UfcRow(i, r[i].date, "")]) :
                    r \in [1..n -> LatestRows]} : n \in 0..MaxListed}

AnyDate(event_date, day) == TRUE

\* event_date <= cutoff
OnOrBefore(event_date, day) == event_date <= day

\* _get_filtered_previous_event_urls: the pairs (href, event_date)
RECURSIVE FilteredPrevious(_, _)
FilteredPrevious(rows, day) ==
    IF rows = <<>> THEN <<>>
    ELSE LET row == Head(rows)
             rest == FilteredPrevious(Tail(rows), day)
         IN IF ~row.hasDate THEN rest
            ELSE IF StrptimeLong(row.date) < 0 THEN rest
            ELSE IF ~OnOrBefore(StrptimeLong(row.date), day) THEN rest
            ELSE IF ~row.hasLink THEN rest
            ELSE <<[url |-> row.id, date_dt |-> StrptimeLong(row.date)]>> \o rest

\* get_latest: _fetch_page raises on a transport error and on an error
\* status (raise_for_status); events.sort(key=date, reverse=True) is stable
GetLatest(page, day) ==
    IF page.fetch # "ok" THEN Raised
    ELSE LET events == EventsSorted(FilteredPrevious(page.rows, day))
         IN IF events = <<>> THEN List(<<>>) ELSE List(<<events[1].url>>)

LatestInit ==
    /\ JudgesOff
    /\ OthersIdle("latest")
    /\ completed \in CompletedPages
    /\ cutoff \in 1..LastDay
    /\ scraped = NotRun

LatestRun ==
    /\ scraped = NotRun
    /\ scraped' = GetLatest(completed, cutoff)
    /\ OthersUnchanged("latest")
    /\ UNCHANGED <<judgeVars, completed, cutoff>>

LatestNext == LatestRun

SpecLatest == LatestInit /\ [][LatestNext]_vars

\* the listed events with a date that parses, on or before the cutoff
Previous ==
    {i \in 1..Len(completed.rows) :
        /\ completed.rows[i].hasLink /\ completed.rows[i].hasDate
        /\ completed.rows[i].date.fmt = "long"
        /\ completed.rows[i].date.day <= cutoff}
IsLatest(i) ==
    i \in Previous /\ \A j \in Previous : completed.rows[j].date.day <= completed.rows[i].date.day

\* C26: get_latest scrapes one event, one of the latest date among the
\* listed events dated on or before the cutoff, and scrapes nothing when
\* no listed event has such a date.
C26_LatestScraped ==
    (scraped # NotRun /\ completed.fetch = "ok") =>
        /\ scraped # Raised
        /\ IF Previous = {} THEN scraped.list = <<>>
           ELSE /\ Len(scraped.list) = 1
                /\ \E i \in Previous : IsLatest(i) /\ scraped.list[1] = completed.rows[i].id

\* rows dated day 1, day 3 and day 2 with the cutoff at day 2: the third
\* row is scraped
C26_Witness ==
    /\ scraped # NotRun /\ completed.fetch = "ok"
    /\ cutoff = 2
    /\ Len(completed.rows) = 3
    /\ \A i \in 1..3 : completed.rows[i].hasLink /\ completed.rows[i].date.fmt = "long"
    /\ completed.rows[1].date.day = 1 /\ completed.rows[2].date.day = 3
    /\ completed.rows[3].date.day = 2
    /\ scraped = List(<<3>>)

-----------------------------------------------------------------------------
(* Termination of the async run.  The event loop runs every task that is   *)
(* ready, and every page fetch ends, with the page or with a failure.      *)

SpecJudgesFair == JudgesInit /\ [][JudgesNext]_vars /\ WF_vars(JudgesNext)

AsyncRunOver == pc[Main] = "done"

\* C27: whatever the concurrency limit and the pages, the run of
\* parse_all_events ends; a slot of the semaphore is held only by a task
\* inside a fetch, never by one that waits for other tasks, and when the
\* run is over every slot is free.
C27_RunCompletes ==
    /\ <>AsyncRunOver
    /\ [](semaphore = limit - Cardinality(InFlight))
    /\ [](AsyncRunOver => semaphore = limit)

\* a run with a single slot is over, its events and their fights fetched
C27_Witness ==
    /\ AsyncRunOver
    /\ limit = 1 /\ semaphore = 1
    /\ Len(tasks) = NumEvents
    /\ \A e \in EventIds : \E f \in FightIds : pc[Fi(e, f)] = "done"

-----------------------------------------------------------------------------
(* Claims about the browser contexts *)

\* C28: a browser context opened by fetch_html is closed when that call
\* returns, on failure as on success: the open contexts are those of the
\* fetches in flight, never more than concurrency_limit, and none is open
\* when the run is over.
C28_ContextsClosed ==
    /\ openContexts = Cardinality(InFlight)
    /\ openContexts <= limit
    /\ AsyncRunOver => openContexts = 0

-----------------------------------------------------------------------------
(* match_judges_db.py: add_ufcstats_event_ids_to_judges_json *)

MaxUfcStats == 2
MaxJudgesEvents == 2

\* cutoff_date, 2022-06-25, on the day scale of the model
CutoffDay == 10

\* the rows of the listing: before the cutoff, on consecutive days in one
\* city, in another city, and with a date text strptime rejects
OfflineRows ==
    {[date |-> DateText("long", d), location |-> "Las Vegas, Nevada, USA"] : d \in 9..12}
    \cup {[date |-> DateText("long", 11), location |-> "Miami, Florida, USA"],
          [date |-> DateText("junk", 0), location |-> "Las Vegas, Nevada, USA"]}
OfflinePages ==
    {UfcListing(f, <<>>) : f \in {"http_error", "net_error"}}
    \cup UNION {{UfcListing("ok", [i \in 1..n |-> UfcRow(i, r[i].date, r[i].location)]) :
                    r \in [1..n -> OfflineRows]} : n \in 0..MaxUfcStats}

\* a judges event of the input file: "event_details" with "date" and,
\* when the scraper found it, "location"
JudgesRecord(date, location) ==
    [event_details |-> IF location = "" THEN [date |-> date]
                       ELSE [date |-> date, location |-> location]]
JudgesRecords ==
    {JudgesRecord(StrftimeDmy(d), "Las Vegas, NV") : d \in {10, 11}}
    \cup {JudgesRecord(StrftimeDmy(11), ""), JudgesRecord(DateText("long", 11), "Las Vegas, NV")}
JudgesFiles == UNION {[1..n -> JudgesRecords] : n \in 0..MaxJudgesEvents}

\* `if event_date < cutoff_date: continue` over the rows kept (lines 34-74)
AfterCutoff(events) == SelectSeq(events, LAMBDA u : ~(u.event_date < CutoffDay))

\* the inner loop (lines 90-105): the index in judges_events of best_match,
\* 0 for None
RECURSIVE BestMatch(_, _, _, _, _)
BestMatch(u_event, events, j, best_score, best_match) ==
    IF j > Len(events) THEN best_match
    ELSE LET j_date == StrptimeDmy(events[j].event_details.date)
             date_diff == Abs(u_event.event_date - j_date)
             score == TokenSetRatio(u_event.event_location,
                                    GetLocation(events[j].event_details))
         IN IF j_date < 0 THEN BestMatch(u_event, events, j + 1, best_score, best_match)
            ELSE IF date_diff <= 1 /\ score > best_score
            THEN BestMatch(u_event, events, j + 1, score, j)
            ELSE BestMatch(u_event, events, j + 1, best_score, best_match)

\* best_match["event_id"] = u_event["event_id"]
SetEventId(events, j, event_id) ==
    [events EXCEPT ![j] = [event_id |-> event_id] @@ events[j]]

OfflineInit ==
    /\ OthersIdle("offline")
    /\ JudgesOff
    /\ ufcstats_page \in OfflinePages
    /\ judges_json_file \in JudgesFiles
    /\ offline_pc = "fetch"
    /\ ufcstats_events = <<>>
    /\ judges_events = <<>>
    /\ match_log = <<>>
    /\ output_file = NotRun

\* steps 1 and 2: the listing is fetched and filtered, the file is loaded
OfflineFetch ==
    /\ offline_pc = "fetch"
    /\ IF ufcstats_page.fetch = "net_error"
       THEN /\ offline_pc' = "raised"
            /\ UNCHANGED <<ufcstats_events, judges_events>>
       ELSE IF ufcstats_page.fetch = "http_error"
       THEN /\ offline_pc' = "done"
            /\ UNCHANGED <<ufcstats_events, judges_events>>
       ELSE /\ offline_pc' = "match"
            /\ ufcstats_events' = AfterCutoff(UfcRows(ufcstats_page.rows))
            /\ judges_events' = judges_json_file
    /\ UNCHANGED <<ufcstats_page, judges_json_file, match_log, output_file>>
    /\ OthersUnchanged("offline")
    /\ UNCHANGED judgeVars

\* step 3, one iteration of `for u_event in ufcstats_events`
OfflineMatch ==
    /\ offline_pc = "match"
    /\ ufcstats_events # <<>>
    /\ LET u_event == Head(ufcstats_events)
           best_match == BestMatch(u_event, judges_events, 1, -1, 0)
       IN IF best_match # 0
          THEN /\ judges_events' = SetEventId(judges_events, best_match, u_event.event_id)
               /\ match_log' = Append(match_log, [event_id |-> u_event.event_id,
                                                  index |-> best_match])
          ELSE UNCHANGED <<judges_events, match_log>>
    /\ ufcstats_events' = Tail(ufcstats_events)
    /\ UNCHANGED <<ufcstats_page, judges_json_file, offline_pc, output_file>>
    /\ OthersUnchanged("offline")
    /\ UNCHANGED judgeVars

\* step 4: json.dump(judges_events, f)
OfflineSave ==
    /\ offline_pc = "match"
    /\ ufcstats_events = <<>>
    /\ output_file' = List(judges_events)
    /\ offline_pc' = "done"
    /\ UNCHANGED <<ufcstats_page, judges_json_file, ufcstats_events, judges_events,
                   match_log>>
    /\ OthersUnchanged("offline")
    /\ UNCHANGED judgeVars

OfflineNext == OfflineFetch \/ OfflineMatch \/ OfflineSave

SpecOffline == OfflineInit /\ [][OfflineNext]_vars

\* the id a judges event carries, None when it has none
IdOn(j_event) == IF "event_id" \in DOMAIN j_event THEN StrVal(j_event.event_id) ELSE None

\* C29: once the output is saved, every UFCStats event for which a match
\* was found has its id on the judges event it was matched with
C29_MatchedIdsSaved ==
    output_file # NotRun =>
        \A k \in 1..Len(match_log) :
            IdOn(output_file.list[match_log[k].index]) = StrVal(match_log[k].event_id)

-----------------------------------------------------------------------------
(* espn_scraper.py and live_python.py: load_all_fight_buttons *)

MaxClicks == 3
MaxButtons == 3

NeverReached(c, m) == FALSE

\* `if clicks_done >= max_clicks: break` of the for loop
LimitReached(c, m) == c >= m

ButtonsInit ==
    /\ OthersIdle("buttons")
    /\ JudgesOff
    /\ max_clicks \in 0..MaxClicks
    /\ clicks_done = 0
    /\ new_clicks = 0
    /\ buttons = 0
    /\ to_click = 0
    /\ buttons_pc = "while"

\* the head of a pass of the while loop: the test, wait_for_selector and
\* query_selector_all.  The page answers with a timeout, with another
\* exception (not caught), or with n buttons.
ButtonsQuery ==
    /\ buttons_pc = "while"
    /\ IF ~(clicks_done < max_clicks)
       THEN /\ buttons_pc' = "done"
            /\ UNCHANGED <<buttons, to_click, new_clicks>>
       ELSE \E outcome \in {"timeout", "error", "found"}, answer \in 0..MaxButtons :
               IF outcome = "timeout"
               THEN /\ buttons_pc' = "done"
                    /\ UNCHANGED <<buttons, to_click, new_clicks>>
               ELSE IF outcome = "error"
               THEN /\ buttons_pc' = "raised"
                    /\ UNCHANGED <<buttons, to_click, new_clicks>>
               ELSE IF answer = 0
               THEN /\ buttons_pc' = "done"
                    /\ buttons' = 0
                    /\ UNCHANGED <<to_click, new_clicks>>
               ELSE /\ buttons_pc' = "for"
                    /\ buttons' = answer
                    /\ to_click' = answer - 1
                    /\ new_clicks' = 0
    /\ UNCHANGED <<max_clicks, clicks_done>>
    /\ OthersUnchanged("buttons")
    /\ UNCHANGED judgeVars

\* one pass of `for btn in buttons[1:]`: the click succeeds or raises
ButtonsClick ==
    /\ buttons_pc = "for"
    /\ IF to_click = 0 \/ LimitReached(clicks_done, max_clicks)
       THEN /\ buttons_pc' = "scroll"
            /\ UNCHANGED <<clicks_done, new_clicks, to_click>>
       ELSE \E clicked \in BOOLEAN :
               IF clicked
               THEN /\ clicks_done' = clicks_done + 1
                    /\ new_clicks' = new_clicks + 1
                    /\ to_click' = to_click - 1
                    /\ UNCHANGED buttons_pc
               ELSE /\ buttons_pc' = "scroll"
                    /\ UNCHANGED <<clicks_done, new_clicks, to_click>>
    /\ UNCHANGED <<max_clicks, buttons>>
    /\ OthersUnchanged("buttons")
    /\ UNCHANGED judgeVars

\* the rest of the pass: the new_clicks test, the scroll (its exception is
\* not caught) and the second query, which raises or answers with the
\* number of buttons now on the page
ButtonsScroll ==
    /\ buttons_pc = "scroll"
    /\ IF new_clicks = 0
       THEN buttons_pc' = "done"
       ELSE \E wheel \in BOOLEAN, queried \in BOOLEAN, more_buttons \in 0..(MaxButtons + 1) :
               IF ~wheel THEN buttons_pc' = "raised"
               ELSE IF ~queried THEN buttons_pc' = "done"
               ELSE IF more_buttons = 0 \/ more_buttons = buttons THEN buttons_pc' = "done"
               ELSE buttons_pc' = "while"
    /\ UNCHANGED <<max_clicks, clicks_done, new_clicks, buttons, to_click>>
    /\ OthersUnchanged("buttons")
    /\ UNCHANGED judgeVars

ButtonsNext == ButtonsQuery \/ ButtonsClick \/ ButtonsScroll

\* every call of the page returns or raises within its timeout: a step
\* that can be taken is taken
SpecButtonsFair == ButtonsInit /\ [][ButtonsNext]_vars /\ WF_vars(ButtonsNext)

ButtonsOver == buttons_pc \in {"done", "raised"}

\* a pass that began with k clicks done and reaches the head of the loop
\* again has more than k clicks done
PassAdvances(k) ==
    [](buttons_pc = "while" /\ clicks_done = k
        => [](buttons_pc # "while" => [](buttons_pc = "while" => clicks_done > k)))

\* C30: load_all_fight_buttons ends for every behaviour of the page, never
\* has more than max_clicks clicks done, and every pass of the while loop
\* either ends the loop or raises clicks_done
C30_ClicksBounded ==
    /\ <>ButtonsOver
    /\ [](clicks_done <= max_clicks)
    /\ \A k \in 0..MaxClicks : PassAdvances(k)

\* the limit stopped the clicking after several passes
C30_Witness ==
    /\ buttons_pc = "done"
    /\ max_clicks = MaxClicks
    /\ clicks_done = max_clicks
    /\ new_clicks < clicks_done

=============================================================================
